---- MODULE Spec2Model ----
(***************************************************************************)
(* Environmental-impact service of promptpulse (environmental-service):    *)
(* the model energy table, the carbon-intensity resolver, the result       *)
(* cache, the request validator and the calculate-impact pipeline.         *)
(*                                                                         *)
(* Numbers.  The service computes with Python floats; the model computes   *)
(* with exact decimals held as integers in a fixed unit:                   *)
(*   energy            in units of 10^-5 Wh   (0.00005 Wh = 5)             *)
(*   carbon intensity  in units of 10^-6 g/kWh (350 g/kWh = 350000000)     *)
(* Binary floating-point error is not modelled.                            *)
(***************************************************************************)
EXTENDS Integers, Sequences, FiniteSets, TLC

VARIABLES
    calc_call,              \* call of EcoLogitsCalculator.calculate_energy_consumption
    electricity_maps_token, \* CarbonIntensityService.electricity_maps_token
    watt_time_username,     \* CarbonIntensityService.watt_time_username
    watt_time_password,     \* CarbonIntensityService.watt_time_password
    watt_time_token,        \* CarbonIntensityService.watt_time_token
    watt_time_rejected,     \* the provider refused the held token on the last fetch
    carbon_call,            \* call of CarbonIntensityService.get_carbon_intensity
    cache_dict,             \* app.cache_dict: its items, in insertion order
    cache_call,             \* last call of app.cache_result
    cache_writes,           \* number of cache_result calls made so far
    writers,                \* threads inside app.cache_result: where each stands
    val_call,               \* call of utils.validate_request_data
    impact_call,            \* last request handled by app.calculate_impact
    impact_calls,           \* number of requests handled so far
    batch_call,             \* last request handled by app.batch_calculate
    batch_calls,            \* number of batch requests handled so far
    health_call,            \* last request handled by app.health_check
    health_calls            \* number of health requests handled so far

calcVars   == <<calc_call>>
carbonVars == <<electricity_maps_token, watt_time_username, watt_time_password,
                watt_time_token, watt_time_rejected, carbon_call>>
cacheVars  == <<cache_dict, cache_call, cache_writes, writers>>
valVars    == <<val_call>>
impactVars == <<impact_call, impact_calls>>
batchVars  == <<batch_call, batch_calls>>
healthVars == <<health_call, health_calls>>
vars == <<calcVars, carbonVars, cacheVars, valVars, impactVars, batchVars,
         healthVars>>

NoCall == [op |-> "none"]

\* JSON / Python values, tagged with their type
Str(s)   == [t |-> "str", v |-> s]
IntV(n)  == [t |-> "int", v |-> n]
Null     == [t |-> "null"]
Num(n)   == [t |-> "num", v |-> n]
Missing  == [t |-> "missing"]
Float(n) == [t |-> "float", v |-> n]      \* a JSON number with a fraction, n + 0.5
Bool(b)  == [t |-> "bool", v |-> b]

\* Python truthiness of a tagged value
Truthy(x) ==
    CASE x.t = "str"  -> x.v # ""
      [] x.t = "int"  -> x.v # 0
      [] x.t = "num"  -> x.v # 0
      [] x.t = "bool" -> x.v
      [] x.t = "float" -> TRUE
      [] OTHER        -> FALSE

\* f"{x}": a tagged value inside an f-string
Format(x) ==
    CASE x.t = "str"  -> x.v
      [] x.t = "int"  -> ToString(x.v)
      [] x.t = "bool" -> (IF x.v THEN "True" ELSE "False")
      [] x.t = "null" -> "None"

-----------------------------------------------------------------------------
(* Strings: str.lower(), `a in b` on strings.                              *)

UpperChars == <<"A","B","C","D","E","F","G","H","I","J","K","L","M",
                "N","O","P","Q","R","S","T","U","V","W","X","Y","Z">>
LowerChars == <<"a","b","c","d","e","f","g","h","i","j","k","l","m",
                "n","o","p","q","r","s","t","u","v","w","x","y","z">>

LowerChar(c) ==
    IF \E i \in 1..Len(UpperChars) : UpperChars[i] = c
    THEN LowerChars[CHOOSE i \in 1..Len(UpperChars) : UpperChars[i] = c]
    ELSE c

RECURSIVE lower(_)
lower(s) ==
    IF Len(s) = 0 THEN ""
    ELSE LowerChar(SubSeq(s, 1, 1)) \o lower(SubSeq(s, 2, Len(s)))

Whitespace == {" ", "\t", "\n"}

RECURSIVE lstrip(_)
lstrip(s) ==
    IF Len(s) > 0 /\ SubSeq(s, 1, 1) \in Whitespace
    THEN lstrip(SubSeq(s, 2, Len(s))) ELSE s

RECURSIVE rstrip(_)
rstrip(s) ==
    IF Len(s) > 0 /\ SubSeq(s, Len(s), Len(s)) \in Whitespace
    THEN rstrip(SubSeq(s, 1, Len(s) - 1)) ELSE s

strip(s) == rstrip(lstrip(s))

startswith(s, prefix) ==
    Len(s) >= Len(prefix) /\ SubSeq(s, 1, Len(prefix)) = prefix

\* Python's `t in s` for two strings
StrIn(t, s) ==
    \E i \in 0..(Len(s) - Len(t)) : SubSeq(s, i + 1, i + Len(t)) = t

-----------------------------------------------------------------------------
(* ecologits_calculator.py                                                 *)

ModelEnergyProfile(n, a, b, base, src) ==
    [name |-> n, energy_per_input_token |-> a, energy_per_output_token |-> b,
     base_energy |-> base, source |-> src]

claude_3_5_sonnet_base ==
    ModelEnergyProfile("claude-3-5-sonnet", 10, 30, 1000, "ecologits_estimate")

\* the keys of self.model_profiles, in insertion order
claude_models ==
    << "claude-3-5-sonnet-20241022",
       "claude-3-5-sonnet-20240620",
       "claude-3-5-sonnet",
       "claude-3-sonnet-20240229",
       "claude-3-haiku-20240307",
       "claude-3-opus-20240229" >>

KnownModels == {claude_models[i] : i \in 1..Len(claude_models)}

initialize_model_profile(model_name) ==
    IF StrIn("haiku", lower(model_name))
    THEN ModelEnergyProfile(model_name, 5, 15, 500, "ecologits_estimate")
    ELSE IF StrIn("opus", lower(model_name))
    THEN ModelEnergyProfile(model_name, 20, 50, 2000, "ecologits_estimate")
    ELSE claude_3_5_sonnet_base


model_profiles == [m \in KnownModels |-> initialize_model_profile(m)]

get_haiku_profile ==
    ModelEnergyProfile("claude-haiku-fallback", 5, 15, 500, "fallback_estimate")
get_opus_profile ==
    ModelEnergyProfile("claude-opus-fallback", 20, 50, 2000, "fallback_estimate")
get_sonnet_profile ==
    ModelEnergyProfile("claude-sonnet-fallback", 10, 30, 1000, "fallback_estimate")
get_default_profile ==
    ModelEnergyProfile("unknown-model-fallback", 10, 30, 1000, "default_fallback")

\* the `for profile_name, profile in self.model_profiles.items()` loop, from
\* position i on: the first profile whose name matches, or "none"
RECURSIVE FuzzyFrom(_, _)
FuzzyFrom(model_lower, i) ==
    IF i > Len(claude_models) THEN [found |-> FALSE]
    ELSE LET profile_name == claude_models[i]
         IN  IF \/ StrIn(lower(profile_name), model_lower)
                \/ StrIn(model_lower, lower(profile_name))
             THEN [found |-> TRUE, profile |-> model_profiles[profile_name]]
             ELSE FuzzyFrom(model_lower, i + 1)

\* variant: the family test reads the id as given, not its lower-cased form
get_model_profile_CaseSensitiveFamily(model) ==
    IF model \in KnownModels THEN model_profiles[model]
    ELSE LET model_lower == lower(model)
             fuzzy       == FuzzyFrom(model_lower, 1)
         IN  IF fuzzy.found THEN fuzzy.profile
             ELSE IF StrIn("haiku", model) THEN get_haiku_profile
             ELSE IF StrIn("opus", model) THEN get_opus_profile
             ELSE IF StrIn("sonnet", model) \/ StrIn("claude", model)
                  THEN get_sonnet_profile
             ELSE get_default_profile

\* variant: the family test runs before the fuzzy loop
get_model_profile_FamilyBeforeFuzzy(model) ==
    IF model \in KnownModels THEN model_profiles[model]
    ELSE LET model_lower == lower(model)
             fuzzy       == FuzzyFrom(model_lower, 1)
         IN  IF StrIn("haiku", model_lower) THEN get_haiku_profile
             ELSE IF StrIn("opus", model_lower) THEN get_opus_profile
             ELSE IF StrIn("sonnet", model_lower) \/ StrIn("claude", model_lower)
                  THEN get_sonnet_profile
             ELSE IF fuzzy.found THEN fuzzy.profile
             ELSE get_default_profile

get_model_profile(model) ==
    IF model \in KnownModels THEN model_profiles[model]
    ELSE LET model_lower == lower(model)
             fuzzy       == FuzzyFrom(model_lower, 1)
         IN  IF fuzzy.found THEN fuzzy.profile
             ELSE IF StrIn("haiku", model_lower) THEN get_haiku_profile
             ELSE IF StrIn("opus", model_lower) THEN get_opus_profile
             ELSE IF StrIn("sonnet", model_lower) \/ StrIn("claude", model_lower)
                  THEN get_sonnet_profile
             ELSE get_default_profile

\* 0.0001 Wh per token
fallback_energy_calculation(input_tokens, output_tokens) ==
    (input_tokens + output_tokens) * 10

EnergyOfProfile(profile, input_tokens, output_tokens) ==
    LET input_energy  == input_tokens * profile.energy_per_input_token
        output_energy == output_tokens * profile.energy_per_output_token
        base_energy   == profile.base_energy
    IN  input_energy + output_energy + base_energy

\* variant: the per-request base energy is left out of the sum
calculate_energy_consumption_NoBase(model, input_tokens, output_tokens) ==
    IF model.t # "str"
    THEN fallback_energy_calculation(input_tokens, output_tokens)
    ELSE LET profile == get_model_profile(model.v)
         IN  input_tokens * profile.energy_per_input_token
               + output_tokens * profile.energy_per_output_token

\* model is a tagged value; a model that is no string makes model.lower()
\* raise, and the except branch answers with the flat estimate
calculate_energy_consumption(model, input_tokens, output_tokens) ==
    IF model.t # "str"
    THEN fallback_energy_calculation(input_tokens, output_tokens)
    ELSE EnergyOfProfile(get_model_profile(model.v), input_tokens, output_tokens)

-----------------------------------------------------------------------------
(* Inputs of the calculator                                                *)

MaxSmallTokens == 1
TokenLimit == 1000000
TokenCounts == (0..MaxSmallTokens) \cup {150, 500, TokenLimit}

IdParts == KnownModels \cup
           {"haiku", "opus", "sonnet", "claude", "gpt", "h", "p", "HAIKU"}
ModelIds == IdParts \cup {a \o b : a \in IdParts, b \in IdParts}

\* one call of calculate_energy_consumption on the drawn arguments
CalcEnergy ==
    /\ calc_call.op = "pending"
    /\ calc_call' =
         [calc_call EXCEPT
            !.op = "done",
            !.profile = IF calc_call.model.t # "str" THEN Null
                        ELSE get_model_profile(calc_call.model.v),
            !.energy_wh = calculate_energy_consumption(
                 calc_call.model, calc_call.input_tokens, calc_call.output_tokens)]

\* CarbonIntensityService() built with no provider credential in the environment
CarbonUnconfigured ==
    /\ electricity_maps_token = Null
    /\ watt_time_username = Null
    /\ watt_time_password = Null
    /\ watt_time_token = Null
    /\ watt_time_rejected = FALSE
    /\ carbon_call = NoCall

\* cache_dict = {}
CacheEmpty ==
    /\ cache_dict = <<>>
    /\ cache_call = NoCall
    /\ cache_writes = 0
    /\ writers = <<>>

ValIdle == val_call = NoCall

\* no request has reached the endpoint yet
ImpactIdle ==
    /\ impact_call = NoCall
    /\ impact_calls = 0

BatchIdle ==
    /\ batch_call = NoCall
    /\ batch_calls = 0

HealthIdle ==
    /\ health_call = NoCall
    /\ health_calls = 0

InitCalc ==
    /\ CarbonUnconfigured
    /\ CacheEmpty
    /\ ValIdle
    /\ ImpactIdle
    /\ BatchIdle
    /\ HealthIdle
    /\ \E model \in {Str(m) : m \in ModelIds} \cup {Null},
       i \in TokenCounts, o \in TokenCounts :
        calc_call = [op |-> "pending", model |-> model, input_tokens |-> i,
                     output_tokens |-> o, profile |-> Null, energy_wh |-> 0]

NextCalc == CalcEnergy /\ UNCHANGED <<carbonVars, cacheVars, valVars, impactVars,
                   batchVars, healthVars>>

SpecCalc == InitCalc /\ [][NextCalc]_vars

-----------------------------------------------------------------------------
(* Claims about the model energy table                                     *)

CalcDone == calc_call.op = "done" /\ calc_call.model.t = "str"

Constants(profile) ==
    <<profile.energy_per_input_token, profile.energy_per_output_token,
      profile.base_energy>>

\* C1: for a model id that is a key of the profile table and token counts in
\* 0..1,000,000, the energy returned is input_tokens*a + output_tokens*b + base
\* for that key's profile constants (a, b, base), and it is never negative.
C1_KnownModelEnergy ==
    (CalcDone /\ calc_call.model.v \in KnownModels) =>
        LET p == model_profiles[calc_call.model.v]
        IN  /\ calc_call.energy_wh =
                  calc_call.input_tokens * p.energy_per_input_token
                    + calc_call.output_tokens * p.energy_per_output_token
                    + p.base_energy
            /\ calc_call.energy_wh >= 0

C1_Witness ==
    /\ CalcDone
    /\ calc_call.model.v = "claude-3-opus-20240229"
    /\ calc_call.input_tokens = TokenLimit
    /\ calc_call.output_tokens = 500
    /\ calc_call.energy_wh = 20 * TokenLimit + 50 * 500 + 2000

FamilyConstants(family) ==
    CASE family = "haiku" -> <<5, 15, 500>>
      [] family = "opus"  -> <<20, 50, 2000>>
      [] OTHER            -> <<10, 30, 1000>>

\* no known profile name contains the lower-cased id or is contained in it
NoFuzzyMatch(model) ==
    \A k \in KnownModels :
        /\ ~StrIn(lower(k), lower(model))
        /\ ~StrIn(lower(model), lower(k))

\* C2 as stated: every id that is no key of the table resolves to the haiku
\* constants when it contains "haiku", to the opus constants when it contains
\* "opus", and to the sonnet/default constants when it contains neither.
C2_UnknownIdFamilyConstants ==
    (CalcDone /\ calc_call.model.v \notin KnownModels) =>
        LET m == lower(calc_call.model.v)
            c == Constants(calc_call.profile)
        IN  /\ StrIn("haiku", m) => c = FamilyConstants("haiku")
            /\ StrIn("opus", m) => c = FamilyConstants("opus")
            /\ (~StrIn("haiku", m) /\ ~StrIn("opus", m))
                  => c = FamilyConstants("sonnet")

\* C2 amended: an id that is no key of the table and that the fuzzy rule does
\* not match resolves, by its lower-cased form, to the haiku constants when it
\* contains "haiku", otherwise to the opus constants when it contains "opus",
\* otherwise to the sonnet/default constants.
C2_UnknownIdFamilyConstantsNoFuzzy ==
    (CalcDone /\ calc_call.model.v \notin KnownModels
              /\ NoFuzzyMatch(calc_call.model.v)) =>
        LET m == lower(calc_call.model.v)
            c == Constants(calc_call.profile)
        IN  IF StrIn("haiku", m) THEN c = FamilyConstants("haiku")
            ELSE IF StrIn("opus", m) THEN c = FamilyConstants("opus")
            ELSE c = FamilyConstants("sonnet")

C2_Witness ==
    /\ CalcDone
    /\ calc_call.model.v = "HAIKUgpt"
    /\ NoFuzzyMatch(calc_call.model.v)
    /\ calc_call.profile.name = "claude-haiku-fallback"

\* the positions of the table, in insertion order, whose name the fuzzy rule
\* matches against the id
FuzzyPositions(model) ==
    {i \in 1..Len(claude_models) :
        \/ StrIn(lower(claude_models[i]), lower(model))
        \/ StrIn(lower(model), lower(claude_models[i]))}

Least(S) == CHOOSE i \in S : \A j \in S : i <= j

\* C3: resolution applies, in this order, exact key match, fuzzy match against
\* the profile names in insertion order, family match (haiku, then opus, then
\* sonnet or claude), default; the first rule that matches decides, and every
\* id resolves to a profile.
C3_ResolutionOrder ==
    CalcDone =>
        LET id == calc_call.model.v
            m  == lower(id)
        IN  calc_call.profile =
              IF id \in KnownModels THEN model_profiles[id]
              ELSE IF FuzzyPositions(id) # {}
                   THEN model_profiles[claude_models[Least(FuzzyPositions(id))]]
              ELSE IF StrIn("haiku", m) THEN get_haiku_profile
              ELSE IF StrIn("opus", m) THEN get_opus_profile
              ELSE IF StrIn("sonnet", m) \/ StrIn("claude", m)
                   THEN get_sonnet_profile
              ELSE get_default_profile

C3_Witness ==
    /\ CalcDone
    /\ calc_call.model.v = "haikuclaude-3-opus-20240229"
    /\ calc_call.profile.name = "claude-3-opus-20240229"

-----------------------------------------------------------------------------
(* carbon_intensity.py                                                     *)
(* Carbon intensities are integers in units of 10^-6 g/kWh.                *)

GPerKWh(n) == n * 1000000

\* self.regional_fallbacks
regional_fallbacks ==
    ("us-west-1" :> GPerKWh(350)) @@ ("us-west-2" :> GPerKWh(380)) @@
    ("us-east-1" :> GPerKWh(420)) @@ ("us-east-2" :> GPerKWh(450)) @@
    ("eu-west-1" :> GPerKWh(300)) @@ ("eu-central-1" :> GPerKWh(400)) @@
    ("ap-southeast-1" :> GPerKWh(500)) @@ ("ap-northeast-1" :> GPerKWh(350)) @@
    ("default" :> GPerKWh(400))

aws_regions ==
    {"us-west-1", "us-west-2", "us-east-1", "us-east-2", "eu-west-1",
     "eu-central-1", "ap-southeast-1", "ap-northeast-1"}

location_mapping ==
    ("california" :> "us-west-1") @@ ("oregon" :> "us-west-2") @@
    ("washington" :> "us-west-2") @@ ("virginia" :> "us-east-1") @@
    ("ohio" :> "us-east-2") @@ ("ireland" :> "eu-west-1") @@
    ("germany" :> "eu-central-1") @@ ("singapore" :> "ap-southeast-1") @@
    ("japan" :> "ap-northeast-1") @@ ("de" :> "eu-central-1") @@
    ("ie" :> "eu-west-1") @@ ("sg" :> "ap-southeast-1") @@
    ("jp" :> "ap-northeast-1")

\* location is a string here
normalize_location(location) ==
    LET loc == strip(lower(location))
    IN  IF loc \in aws_regions THEN loc
        ELSE IF loc \in DOMAIN location_mapping THEN location_mapping[loc]
        ELSE loc

zone_mapping ==
    ("us-west-1" :> "US-CAL-CISO") @@ ("us-west-2" :> "US-NW-PACW") @@
    ("us-east-1" :> "US-VA") @@ ("us-east-2" :> "US-MIDW-MISO") @@
    ("eu-west-1" :> "IE") @@ ("eu-central-1" :> "DE") @@
    ("ap-southeast-1" :> "SG") @@ ("ap-northeast-1" :> "JP")

region_mapping ==
    ("us-west-1" :> "CAISO_NORTH") @@ ("us-west-2" :> "PACW") @@
    ("us-east-1" :> "PJM_DC") @@ ("us-east-2" :> "MISO_IN")

(* What a provider does with one request: requests.get raises (connection   *)
(* error, timeout), answers with a status other than 200, answers 200 with  *)
(* a body response.json() cannot parse, with a JSON body that is no object, *)
(* or with a JSON object whose field of interest is `field`.                *)
Raises      == [kind |-> "exception"]
Status(c)   == [kind |-> "status", code |-> c]
BadJson     == [kind |-> "badjson"]
OkList      == [kind |-> "ok", body |-> [t |-> "list"]]
OkDict(fld) == [kind |-> "ok", body |-> [t |-> "dict", field |-> fld]]
NotAsked    == [kind |-> "not_asked"]

\* outcome of a function body: it returns a value or raises
Return(x, reqs) == [raised |-> FALSE, value |-> x, requests |-> reqs]
Raise(reqs)     == [raised |-> TRUE, value |-> Null, requests |-> reqs]

\* float(data.get(key, 0)) on a 200 response: the field as a number, or a raise
FloatOfField(resp) ==
    IF resp.kind # "ok" \/ resp.body.t # "dict" THEN [raised |-> TRUE]
    ELSE LET f == resp.body.field
         IN  IF f.t = "missing" THEN [raised |-> FALSE, value |-> 0]
             ELSE IF f.t = "num" THEN [raised |-> FALSE, value |-> f.v]
             ELSE [raised |-> TRUE]

\* the try block of _get_electricity_maps_intensity
electricity_maps_body(token, location, resp) ==
    IF location \notin DOMAIN zone_mapping THEN Return(Null, <<>>)
    ELSE LET req == <<[endpoint |-> "electricitymaps",
                       zone |-> zone_mapping[location], auth |-> token]>>
         IN  IF resp.kind \in {"exception", "badjson"} THEN Raise(req)
             ELSE IF resp.kind = "status" THEN Return(Null, req)
             ELSE LET f == FloatOfField(resp)
                  IN  IF f.raised THEN Raise(req)
                      ELSE Return(Num(GPerKWh(f.value)), req)

\* variant: a request that raised is sent a second time
get_electricity_maps_intensity_Retries(token, location, resp) ==
    LET r == electricity_maps_body(token, location, resp)
    IN  IF r.raised THEN Return(Null, r.requests \o r.requests) ELSE r

\* variant: no except clause, a failure of the request propagates
get_electricity_maps_intensity_NoExcept(token, location, resp) ==
    electricity_maps_body(token, location, resp)

get_electricity_maps_intensity(token, location, resp) ==
    LET r == electricity_maps_body(token, location, resp)
    IN  IF r.raised THEN Return(Null, r.requests) ELSE r

\* the try block of _authenticate_watt_time
authenticate_body(username, password, resp) ==
    IF ~(Truthy(username) /\ Truthy(password)) THEN Return(Null, <<>>)
    ELSE LET req == <<[endpoint |-> "watttime_login", user |-> username]>>
         IN  IF resp.kind \in {"exception", "badjson"} THEN Raise(req)
             ELSE IF resp.kind = "status" THEN Return(Null, req)
             ELSE IF resp.body.t # "dict" THEN Raise(req)
             ELSE IF resp.body.field.t = "missing" THEN Return(Null, req)
             ELSE Return(resp.body.field, req)

authenticate_watt_time(username, password, resp) ==
    LET r == authenticate_body(username, password, resp)
    IN  IF r.raised THEN Return(Null, r.requests) ELSE r

\* what _get_watt_time_intensity returns, with the token the service then holds
WTReturn(x, reqs, tok) ==
    [raised |-> FALSE, value |-> x, requests |-> reqs, token |-> tok]

\* lbs/MWh to g/kWh: moer * 453.592 / 1000
MoerToIntensity(moer_lbs_mwh) == moer_lbs_mwh * 453592

\* _get_watt_time_intensity: .value, .requests and the token the service holds
\* afterwards.  No step after the login can raise before its own request, and a
\* raise is answered with None by the except clause.
get_watt_time_intensity(token, username, password, location, login, resp) ==
    LET auth == IF ~Truthy(token)
                THEN authenticate_watt_time(username, password, login)
                ELSE Return(token, <<>>)
        tok  == auth.value
    IN  IF ~Truthy(tok) THEN WTReturn(Null, auth.requests, tok)
        ELSE IF location \notin DOMAIN region_mapping
        THEN WTReturn(Null, auth.requests, tok)
        ELSE LET req == <<[endpoint |-> "watttime_index",
                           ba |-> region_mapping[location], auth |-> tok]>>
                 all == auth.requests \o req
             IN  IF resp.kind \in {"exception", "badjson", "status"}
                 THEN WTReturn(Null, all, tok)
                 ELSE LET f == FloatOfField(resp)
                      IN  IF f.raised
                          THEN WTReturn(Null, all, tok)
                          ELSE WTReturn(Num(MoerToIntensity(f.value)), all, tok)

\* variant: the table is not consulted, every region gets the default
get_fallback_intensity_DefaultOnly(location) ==
    regional_fallbacks["default"]

get_fallback_intensity(location) ==
    IF location \in DOMAIN regional_fallbacks
    THEN regional_fallbacks[location]
    ELSE regional_fallbacks["default"]

\* variant: the secondary provider is tried for every region
watt_time_applies_AnyRegion(username, normalized_location) ==
    Truthy(username)

\* `normalized_location.startswith('us-') and self.watt_time_username`
watt_time_applies(username, normalized_location) ==
    startswith(normalized_location, "us-") /\ Truthy(username)

\* the service object: its credentials and the token it holds
Service ==
    [electricity_maps_token |-> electricity_maps_token,
     watt_time_username |-> watt_time_username,
     watt_time_password |-> watt_time_password,
     watt_time_token |-> watt_time_token]

Outcome(intensity, source, raised, normalized, reqs, token) ==
    [intensity |-> intensity, source |-> source, raised |-> raised,
     normalized |-> normalized, requests |-> reqs, token |-> token]

\* variant: the primary provider, which serves the latest value, is asked
\* only when no timestamp is given
get_carbon_intensity_LatestOnly(svc, location, timestamp, em, login, wt) ==
    IF location.t # "str"
    THEN \* location.lower() raises; the except clause returns the default
         Outcome(regional_fallbacks["default"], "error", FALSE, Null, <<>>,
                 svc.watt_time_token)
    ELSE
    LET normalized_location == normalize_location(location.v)
        r1 == IF Truthy(svc.electricity_maps_token) /\ timestamp = Null
              THEN get_electricity_maps_intensity(
                       svc.electricity_maps_token, normalized_location, em)
              ELSE Return(Null, <<>>)
    IN  IF r1.raised
        THEN Outcome(regional_fallbacks["default"], "error", FALSE,
                     Str(normalized_location), r1.requests, svc.watt_time_token)
        ELSE IF Truthy(r1.value)
        THEN Outcome(r1.value.v, "electricitymaps", FALSE,
                     Str(normalized_location), r1.requests, svc.watt_time_token)
        ELSE
        LET r2 == IF watt_time_applies(svc.watt_time_username, normalized_location)
                  THEN get_watt_time_intensity(
                           svc.watt_time_token, svc.watt_time_username,
                           svc.watt_time_password, normalized_location, login, wt)
                  ELSE WTReturn(Null, <<>>, svc.watt_time_token)
        IN  IF Truthy(r2.value)
            THEN Outcome(r2.value.v, "watttime", FALSE, Str(normalized_location),
                         r1.requests \o r2.requests, r2.token)
            ELSE Outcome(get_fallback_intensity(normalized_location), "fallback",
                         FALSE, Str(normalized_location),
                         r1.requests \o r2.requests, r2.token)

\* get_carbon_intensity on service svc: location is a tagged value, em, login
\* and wt are what the three endpoints do if they are asked.  The timestamp
\* argument is handed on to the provider functions, which never read it.
get_carbon_intensity(svc, location, timestamp, em, login, wt) ==
    IF location.t # "str"
    THEN \* location.lower() raises; the except clause returns the default
         Outcome(regional_fallbacks["default"], "error", FALSE, Null, <<>>,
                 svc.watt_time_token)
    ELSE
    LET normalized_location == normalize_location(location.v)
        r1 == IF Truthy(svc.electricity_maps_token)
              THEN get_electricity_maps_intensity(
                       svc.electricity_maps_token, normalized_location, em)
              ELSE Return(Null, <<>>)
    IN  IF r1.raised
        THEN Outcome(regional_fallbacks["default"], "error", FALSE,
                     Str(normalized_location), r1.requests, svc.watt_time_token)
        ELSE IF Truthy(r1.value)
        THEN Outcome(r1.value.v, "electricitymaps", FALSE,
                     Str(normalized_location), r1.requests, svc.watt_time_token)
        ELSE
        LET r2 == IF watt_time_applies(svc.watt_time_username, normalized_location)
                  THEN get_watt_time_intensity(
                           svc.watt_time_token, svc.watt_time_username,
                           svc.watt_time_password, normalized_location, login, wt)
                  ELSE WTReturn(Null, <<>>, svc.watt_time_token)
        IN  IF Truthy(r2.value)
            THEN Outcome(r2.value.v, "watttime", FALSE, Str(normalized_location),
                         r1.requests \o r2.requests, r2.token)
            ELSE Outcome(get_fallback_intensity(normalized_location), "fallback",
                         FALSE, Str(normalized_location),
                         r1.requests \o r2.requests, r2.token)

-----------------------------------------------------------------------------
(* The resolver's environment and calls                                    *)

Endpoints(reqs) == {reqs[i].endpoint : i \in 1..Len(reqs)}

\* whether the provider refused the token the service holds after a call: the
\* answer of this call's index fetch if it made one, nothing held against a
\* token a login has just fetched, the earlier answer otherwise
token_rejected(before, reqs, wt) ==
    IF "watttime_index" \in Endpoints(reqs) THEN wt.kind = "status"
    ELSE IF "watttime_login" \in Endpoints(reqs) THEN FALSE
    ELSE before

FieldValues == {Missing, Null, Str("n/a")}
EMResponses ==
    {Raises, Status(401), BadJson, OkList}
      \cup {OkDict(f) : f \in FieldValues \cup {Num(0), Num(250), Num(-5)}}
LoginResponses ==
    {Raises, Status(403), BadJson, OkList}
      \cup {OkDict(f) : f \in {Missing, Null, Str(""), Str("tokB")}}
WTResponses ==
    {Raises, Status(401), BadJson, OkList}
      \cup {OkDict(f) : f \in FieldValues \cup {Num(0), Num(800), Num(-100)}}

Locations ==
    {Str(l) : l \in {"us-west-1", " US-West-2\n", "california", "ohio",
                     "us-central-9", "eu-west-1", "DE", "default", "mars"}}
      \cup {Null}
Timestamps == {Null, Str("2025-06-25T10:30:00Z")}

\* os.getenv of a credential: unset, set to the empty string, or set
EMCredentials == {Null, Str(""), Str("em-key")}
WTUsernames   == {Null, Str("user")}
WTPasswords   == {Null, Str("pw")}

\* one call of get_carbon_intensity, run to its return.  An endpoint answers
\* only if the call asks it: whether it is asked is read off the requests the
\* call issues.
GetCarbonIntensity ==
    /\ carbon_call.op # "get_carbon_intensity"
    /\ \E location \in Locations, timestamp \in Timestamps :
       \E em \in IF "electricitymaps" \in Endpoints(get_carbon_intensity(
                       Service, location, timestamp, Raises, Raises, Raises).requests)
                 THEN EMResponses ELSE {NotAsked} :
       \E login \in IF "watttime_login" \in Endpoints(get_carbon_intensity(
                       Service, location, timestamp, em, Raises, Raises).requests)
                    THEN LoginResponses ELSE {NotAsked} :
       \E wt \in IF "watttime_index" \in Endpoints(get_carbon_intensity(
                       Service, location, timestamp, em, login, Raises).requests)
                 THEN WTResponses ELSE {NotAsked} :
          LET out == get_carbon_intensity(Service, location, timestamp, em, login, wt)
          IN  /\ watt_time_token' = out.token
              /\ watt_time_rejected' =
                   token_rejected(watt_time_rejected, out.requests, wt)
              /\ carbon_call' =
                   [op |-> "get_carbon_intensity",
                    location |-> location, timestamp |-> timestamp,
                    em |-> em, login |-> login, wt |-> wt,
                    token_before |-> watt_time_token,
                    rejected_before |-> watt_time_rejected,
                    out |-> out]
    /\ UNCHANGED <<electricity_maps_token, watt_time_username, watt_time_password>>

\* the caller takes the returned intensity; the service waits for the next call
CarbonReturn ==
    /\ carbon_call.op = "get_carbon_intensity"
    /\ carbon_call' = NoCall
    /\ UNCHANGED <<electricity_maps_token, watt_time_username, watt_time_password,
                   watt_time_token, watt_time_rejected>>

CalcIdle == calc_call = NoCall

InitCarbon ==
    /\ CalcIdle
    /\ CacheEmpty
    /\ ValIdle
    /\ ImpactIdle
    /\ BatchIdle
    /\ HealthIdle
    /\ electricity_maps_token \in EMCredentials
    /\ watt_time_username \in WTUsernames
    /\ watt_time_password \in WTPasswords
    /\ watt_time_token = Null
    /\ watt_time_rejected = FALSE
    /\ carbon_call = NoCall

NextCarbon ==
    \/ GetCarbonIntensity /\ UNCHANGED <<calcVars, cacheVars, valVars, impactVars,
                   batchVars, healthVars>>
    \/ CarbonReturn /\ UNCHANGED <<calcVars, cacheVars, valVars, impactVars,
                   batchVars, healthVars>>

SpecCarbon == InitCarbon /\ [][NextCarbon]_vars

-----------------------------------------------------------------------------
(* Claims about the carbon-intensity resolver                              *)

CarbonDone == carbon_call.op = "get_carbon_intensity"

\* a provider that was asked answered 200 with a number other than zero
Hit(resp) ==
    /\ resp.kind = "ok"
    /\ resp.body.t = "dict"
    /\ resp.body.field.t = "num"
    /\ resp.body.field.v # 0

EndpointSeq(reqs) == [i \in 1..Len(reqs) |-> reqs[i].endpoint]

TierRank(endpoint) ==
    CASE endpoint = "electricitymaps" -> 1
      [] endpoint = "watttime_login"  -> 2
      [] endpoint = "watttime_index"  -> 3

\* C5: the tiers are tried in a fixed order and the first that hits decides:
\* the primary provider is asked first and only when its credential is set; the
\* secondary is asked only when the primary was unconfigured or missed, the
\* canonical region starts with "us-" and the secondary is configured; the
\* static table answers only when no provider hit; nothing is asked after a hit.
C5_TierOrder ==
    CarbonDone =>
        LET c    == carbon_call
            eps  == EndpointSeq(c.out.requests)
            used == Endpoints(c.out.requests)
        IN  /\ \A i, j \in 1..Len(eps) : i < j => TierRank(eps[i]) < TierRank(eps[j])
            /\ "electricitymaps" \in used => Truthy(electricity_maps_token)
            /\ (used \cap {"watttime_login", "watttime_index"} # {}) =>
                 /\ ~Hit(c.em)
                 /\ c.out.normalized.t = "str"
                 /\ startswith(c.out.normalized.v, "us-")
                 /\ Truthy(watt_time_username)
            /\ Hit(c.em) =>
                 /\ eps = <<"electricitymaps">>
                 /\ c.out.source = "electricitymaps"
                 /\ c.out.intensity = GPerKWh(c.em.body.field.v)
            /\ (~Hit(c.em) /\ Hit(c.wt)) =>
                 /\ c.out.source = "watttime"
                 /\ c.out.intensity = 453592 * c.wt.body.field.v
            /\ c.out.source = "fallback" => (~Hit(c.em) /\ ~Hit(c.wt))

C5_Witness ==
    /\ CarbonDone
    /\ carbon_call.location = Str("california")
    /\ carbon_call.em = OkDict(Num(0))
    /\ carbon_call.login = OkDict(Str("tokB"))
    /\ carbon_call.wt = OkDict(Num(800))
    /\ EndpointSeq(carbon_call.out.requests) =
         <<"electricitymaps", "watttime_login", "watttime_index">>
    /\ carbon_call.out.source = "watttime"

\* C6: whatever the providers do, get_carbon_intensity returns a number and
\* does not raise; when no provider hit (or none is configured) it returns the
\* static table value of the canonical region, and the global default of 400
\* when the canonical region is no key of the table.
C6_ProviderFailuresSwallowed ==
    CarbonDone =>
        LET c == carbon_call
        IN  /\ ~c.out.raised
            /\ c.out.intensity \in Int
            /\ (c.location.t = "str" /\ ~Hit(c.em) /\ ~Hit(c.wt)) =>
                 LET region == normalize_location(c.location.v)
                 IN  c.out.intensity =
                       IF region \in DOMAIN regional_fallbacks
                       THEN regional_fallbacks[region]
                       ELSE GPerKWh(400)

C6_Witness ==
    /\ CarbonDone
    /\ carbon_call.location = Str(" US-West-2\n")
    /\ carbon_call.em = Raises
    /\ carbon_call.login = OkDict(Str("tokB"))
    /\ carbon_call.wt = BadJson
    /\ carbon_call.out.intensity = GPerKWh(380)

\* C7: the intensity get_carbon_intensity returns is strictly positive,
\* whichever tier produced it and whatever number a provider answered with.
C7_PositiveIntensity ==
    CarbonDone => carbon_call.out.intensity > 0

-----------------------------------------------------------------------------
(* app.py: the in-memory result cache                                      *)
(* cache_dict is a Python dict: a key keeps the position of its first      *)
(* insertion, so it is held as the sequence of its items.                  *)

CACHE_MAX_SIZE == 1000
EVICT_COUNT == 200

Item(k, v) == [key |-> k, value |-> v]

\* list(cache_dict.keys())
CacheKeys(cache) == [i \in 1..Len(cache) |-> cache[i].key]
KeySet(cache) == {cache[i].key : i \in 1..Len(cache)}

Position(cache, k) == CHOOSE i \in 1..Len(cache) : cache[i].key = k

\* cache_dict.get(cache_key)
get_cached_result(cache, cache_key) ==
    IF cache_key \in KeySet(cache)
    THEN cache[Position(cache, cache_key)].value
    ELSE Null

\* cache_dict[cache_key] = result
DictSet(cache, k, v) ==
    IF k \in KeySet(cache)
    THEN [cache EXCEPT ![Position(cache, k)] = Item(k, v)]
    ELSE Append(cache, Item(k, v))

Min(a, b) == IF a < b THEN a ELSE b

\* for key in keys: del cache_dict[key]
DictDelAll(cache, keys) ==
    SelectSeq(cache, LAMBDA item : \A i \in 1..Len(keys) : keys[i] # item.key)

\* variant: the size check is left out, nothing is ever removed
cache_result_NoEviction(cache, cache_key, result) ==
    DictSet(cache, cache_key, result)

\* variant: the newest keys are removed, list(cache_dict.keys())[-200:]
cache_result_EvictNewest(cache, cache_key, result) ==
    LET c == DictSet(cache, cache_key, result)
    IN  IF Len(c) > CACHE_MAX_SIZE
        THEN DictDelAll(c, SubSeq(CacheKeys(c), Len(c) - EVICT_COUNT + 1, Len(c)))
        ELSE c

\* cache_result: the dict after the call
cache_result(cache, cache_key, result) ==
    LET c == DictSet(cache, cache_key, result)
    IN  IF Len(c) > CACHE_MAX_SIZE
        THEN LET keys_to_remove == SubSeq(CacheKeys(c), 1, Min(EVICT_COUNT, Len(c)))
             IN  DictDelAll(c, keys_to_remove)
        ELSE c

-----------------------------------------------------------------------------
(* Writers of the cache                                                    *)

MaxCacheWrites == 3
PrefillSlack == 1

\* cache_key = f"impact:{model}:{input_tokens}:{output_tokens}:{location}"
CacheKey(model, input_tokens, output_tokens, location) ==
    "impact:" \o Format(model) \o ":" \o Format(input_tokens) \o ":"
      \o Format(output_tokens) \o ":" \o Format(location)

\* the key of the n-th distinct request a client makes
NthKey(n) == CacheKey(Str("claude-3-5-sonnet"), IntV(n), IntV(0), Str("us-west-1"))

CacheValues == {"resultA", "resultB"}

\* the dict after n requests with distinct keys, none evicted yet
Prefilled(n) == [i \in 1..n |-> Item(NthKey(i), "resultA")]

\* the keys a writer picks: one never written before, or one the dict holds at
\* either end or on either side of the eviction boundary
KeysToWrite ==
    {NthKey(CACHE_MAX_SIZE + 1 + cache_writes)}
      \cup {cache_dict[i].key :
              i \in {1, EVICT_COUNT, EVICT_COUNT + 1, Len(cache_dict)}
                      \cap (1..Len(cache_dict))}

CacheResult(cache_key, result) ==
    /\ cache_writes < MaxCacheWrites
    /\ cache_dict' = cache_result(cache_dict, cache_key, result)
    /\ cache_call' = [op |-> "cache_result", key |-> cache_key, value |-> result,
                      was_new |-> cache_key \notin KeySet(cache_dict),
                      len_before |-> Len(cache_dict)]
    /\ cache_writes' = cache_writes + 1
    /\ UNCHANGED writers

InitCache ==
    /\ CalcIdle
    /\ CarbonUnconfigured
    /\ ValIdle
    /\ ImpactIdle
    /\ BatchIdle
    /\ HealthIdle
    /\ cache_call = NoCall
    /\ cache_writes = 0
    /\ writers = <<>>
    /\ \E n \in {0} \cup ((CACHE_MAX_SIZE - PrefillSlack)..CACHE_MAX_SIZE) :
          cache_dict = Prefilled(n)

NextCache ==
    \E k \in KeysToWrite, v \in CacheValues :
        CacheResult(k, v) /\ UNCHANGED <<calcVars, carbonVars, valVars, impactVars,
                   batchVars, healthVars>>

SpecCache == InitCache /\ [][NextCache]_vars

-----------------------------------------------------------------------------
(* Claims about the result cache                                           *)

\* C8: whenever a cache write has completed, the cache holds at most 1000
\* entries.
C8_CacheSizeBounded ==
    Len(cache_dict) <= CACHE_MAX_SIZE

C8_Witness ==
    /\ cache_call.op = "cache_result"
    /\ cache_call.was_new
    /\ cache_call.len_before = CACHE_MAX_SIZE
    /\ Len(cache_dict) = CACHE_MAX_SIZE + 1 - EVICT_COUNT

\* C9: a write that brings the number of distinct keys above 1000 evicts
\* exactly the 200 earliest-inserted keys; every later-inserted key, the one
\* just written included, stays with its value and in its order, and the
\* resulting size is at most 1000.
C9_EvictsOldest ==
    [][ (cache_call'.op = "cache_result"
           /\ Cardinality(KeySet(cache_dict) \cup {cache_call'.key}) > CACHE_MAX_SIZE)
        => LET k      == cache_call'.key
               v      == cache_call'.value
               oldest == {cache_dict[i].key : i \in 1..EVICT_COUNT}
           IN  /\ KeySet(cache_dict') = (KeySet(cache_dict) \cup {k}) \ oldest
               /\ \A i \in (EVICT_COUNT + 1)..Len(cache_dict) :
                     cache_dict'[i - EVICT_COUNT] = cache_dict[i]
               /\ cache_dict'[Len(cache_dict')] = Item(k, v)
               /\ Len(cache_dict') = Len(cache_dict) + 1 - EVICT_COUNT
               /\ Len(cache_dict') <= CACHE_MAX_SIZE
      ]_vars

C9_Witness ==
    /\ cache_call.op = "cache_result"
    /\ cache_call.was_new
    /\ cache_call.len_before = CACHE_MAX_SIZE
    /\ cache_dict[1].key = NthKey(EVICT_COUNT + 1)
    /\ cache_dict[Len(cache_dict)] = Item(cache_call.key, cache_call.value)

-----------------------------------------------------------------------------
(* utils.py: validate_request_data                                         *)
(* A request body is a function from the keys it holds to tagged values.   *)

\* isinstance(x, int): bool is a subclass of int
IsInstanceInt(x) == x.t \in {"int", "bool"}

\* the value of an int (or bool) in a comparison
IntOf(x) == IF x.t = "bool" THEN (IF x.v THEN 1 ELSE 0) ELSE x.v

\* strings datetime.fromisoformat accepts once 'Z' is replaced by '+00:00';
\* of the strings drawn below, these two
IsoStrings == {"2025-06-25T10:30:00Z", "2025-06-25"}

fromisoformat_ok(timestamp) == timestamp \in IsoStrings

required_fields == <<"model", "input_tokens", "output_tokens">>

RECURSIVE FirstMissing(_, _)
FirstMissing(data, i) ==
    IF i > Len(required_fields) THEN Null
    ELSE IF required_fields[i] \notin DOMAIN data
         THEN Str("Missing required field: " \o required_fields[i])
         ELSE FirstMissing(data, i + 1)

\* the checks on the optional fields, lines 52-69
validate_optional(data) ==
    LET ts_error ==
          IF "timestamp" \notin DOMAIN data THEN Null
          ELSE LET timestamp == data["timestamp"]
               IN  IF Truthy(timestamp) /\ timestamp.t # "str"
                   THEN Str("timestamp must be a string in ISO format")
                   ELSE IF Truthy(timestamp) /\ ~fromisoformat_ok(timestamp.v)
                   THEN Str("timestamp must be a valid ISO format string")
                   ELSE Null
        loc_error ==
          IF "location" \notin DOMAIN data THEN Null
          ELSE LET location == data["location"]
               IN  IF Truthy(location)
                      /\ (location.t # "str" \/ Len(strip(location.v)) = 0)
                   THEN Str("location must be a non-empty string")
                   ELSE Null
    IN  IF ts_error # Null THEN ts_error ELSE loc_error

\* validate_request_data: Null for None, Str(message) otherwise
validate_request_data(data) ==
    IF FirstMissing(data, 1) # Null THEN FirstMissing(data, 1)
    ELSE
    LET model         == data["model"]
        input_tokens  == data["input_tokens"]
        output_tokens == data["output_tokens"]
    IN  IF model.t # "str" \/ Len(strip(model.v)) = 0
        THEN Str("Model must be a non-empty string")
        ELSE IF ~IsInstanceInt(input_tokens) \/ IntOf(input_tokens) < 0
        THEN Str("input_tokens must be a non-negative integer")
        ELSE IF ~IsInstanceInt(output_tokens) \/ IntOf(output_tokens) < 0
        THEN Str("output_tokens must be a non-negative integer")
        ELSE IF IntOf(input_tokens) > TokenLimit
        THEN Str("input_tokens exceeds reasonable limit (1M)")
        ELSE IF IntOf(output_tokens) > TokenLimit
        THEN Str("output_tokens exceeds reasonable limit (1M)")
        ELSE validate_optional(data)

-----------------------------------------------------------------------------
(* Request bodies                                                          *)

Absent == [t |-> "absent"]

ModelValues ==
    {Absent, Null, IntV(5), Str(""), Str("  "), Str("claude-3-5-sonnet-20241022")}
TokenValues ==
    {Absent, Null, Str("12"), Float(1), Bool(TRUE),
     IntV(-1), IntV(0), IntV(150), IntV(TokenLimit), IntV(TokenLimit + 1)}
TimestampValues ==
    {Absent, Null, IntV(0), IntV(5), Str(""), Str(" "), Str("not-a-date"),
     Str("2025-06-25T10:30:00Z"), Str("2025-06-25")}
LocationValues ==
    {Absent, Null, IntV(0), IntV(7), Str(""), Str("  "), Str("us-west-1")}

AllFields == {"model", "input_tokens", "output_tokens", "timestamp", "location"}

\* the body holding the given value under each key, a key left out when Absent
Body(m, i, o, ts, loc) ==
    LET all == [f \in AllFields |->
                  CASE f = "model" -> m
                    [] f = "input_tokens" -> i
                    [] f = "output_tokens" -> o
                    [] f = "timestamp" -> ts
                    [] f = "location" -> loc]
    IN  [f \in {g \in AllFields : all[g] # Absent} |-> all[f]]

Validate ==
    /\ val_call.op = "pending"
    /\ val_call' = [val_call EXCEPT !.op = "done",
                                    !.error = validate_request_data(val_call.data)]

InitValidate ==
    /\ CalcIdle
    /\ ImpactIdle
    /\ BatchIdle
    /\ HealthIdle
    /\ CarbonUnconfigured
    /\ CacheEmpty
    /\ \E m \in ModelValues, i \in TokenValues, o \in TokenValues,
          ts \in TimestampValues, loc \in LocationValues :
          val_call = [op |-> "pending", data |-> Body(m, i, o, ts, loc),
                      error |-> Null]

NextValidate == Validate /\ UNCHANGED <<calcVars, carbonVars, cacheVars, impactVars,
                   batchVars, healthVars>>

SpecValidate == InitValidate /\ [][NextValidate]_vars

-----------------------------------------------------------------------------
(* Claims about the request validator                                      *)

ValDone == val_call.op = "done"

Field(data, f) == IF f \in DOMAIN data THEN data[f] ELSE Absent

NonEmptyString(x) == x.t = "str" /\ Len(strip(x.v)) > 0
NonNegativeInteger(x) == x.t \in {"int", "bool"} /\ IntOf(x) >= 0
WithinLimit(x) == x.t \in {"int", "bool"} => IntOf(x) <= TokenLimit
\* an optional field counts as present when its key is there with a value
\* other than null
Present(x) == x.t \notin {"absent", "null"}

\* the rules of C10 in their order, each with whether the body violates it and
\* the message it carries
Rules(data) ==
    LET m   == Field(data, "model")
        i   == Field(data, "input_tokens")
        o   == Field(data, "output_tokens")
        ts  == Field(data, "timestamp")
        loc == Field(data, "location")
    IN  << [bad |-> m = Absent, msg |-> "Missing required field: model"],
           [bad |-> i = Absent, msg |-> "Missing required field: input_tokens"],
           [bad |-> o = Absent, msg |-> "Missing required field: output_tokens"],
           [bad |-> ~NonEmptyString(m), msg |-> "Model must be a non-empty string"],
           [bad |-> ~NonNegativeInteger(i),
            msg |-> "input_tokens must be a non-negative integer"],
           [bad |-> ~NonNegativeInteger(o),
            msg |-> "output_tokens must be a non-negative integer"],
           [bad |-> ~WithinLimit(i),
            msg |-> "input_tokens exceeds reasonable limit (1M)"],
           [bad |-> ~WithinLimit(o),
            msg |-> "output_tokens exceeds reasonable limit (1M)"],
           [bad |-> Present(ts) /\ ts.t # "str",
            msg |-> "timestamp must be a string in ISO format"],
           [bad |-> Present(ts) /\ ts.t = "str" /\ ts.v \notin IsoStrings,
            msg |-> "timestamp must be a valid ISO format string"],
           [bad |-> Present(loc) /\ ~NonEmptyString(loc),
            msg |-> "location must be a non-empty string"] >>

Violated(data) == {n \in 1..Len(Rules(data)) : Rules(data)[n].bad}

\* C10: validate_request_data returns None exactly when no rule is violated,
\* and otherwise the message of the first violated rule in the order: required
\* fields (model, input_tokens, output_tokens); model a non-empty string;
\* input_tokens, then output_tokens, a non-negative integer; input_tokens, then
\* output_tokens, at most 1,000,000; timestamp, if present, an ISO-8601 string;
\* location, if present, a non-empty string.  The rules are read in the code's
\* favour where the claim leaves room: a boolean counts as an integer, a
\* whitespace-only string as empty, a null optional field as absent.
C10_FirstViolatedRule ==
    ValDone =>
        val_call.error =
          IF Violated(val_call.data) = {} THEN Null
          ELSE Str(Rules(val_call.data)[Least(Violated(val_call.data))].msg)

-----------------------------------------------------------------------------
(* Exact decimal arithmetic for the float computations of the pipeline.    *)
(* A natural number is the sequence of its decimal digits, lowest first,   *)
(* so that products beyond the range of machine integers stay exact.       *)
(* round(x, n) rounds half to even, as Python does.                        *)

RECURSIVE Digits(_)
Digits(n) == IF n < 10 THEN <<n>> ELSE <<n % 10>> \o Digits(n \div 10)

\* the digits without zeros at the high end (zero is <<0>>)
RECURSIVE Trim(_)
Trim(d) ==
    IF Len(d) > 1 /\ d[Len(d)] = 0 THEN Trim(SubSeq(d, 1, Len(d) - 1)) ELSE d

RECURSIVE ToInt(_)
ToInt(d) == IF Len(d) = 0 THEN 0 ELSE d[1] + 10 * ToInt(Tail(d))

RECURSIVE BigAddC(_, _, _)
BigAddC(a, b, carry) ==
    IF Len(a) = 0 /\ Len(b) = 0
    THEN (IF carry = 0 THEN <<>> ELSE <<carry>>)
    ELSE LET x == IF Len(a) = 0 THEN 0 ELSE a[1]
             y == IF Len(b) = 0 THEN 0 ELSE b[1]
             t == x + y + carry
         IN  <<t % 10>> \o BigAddC(IF Len(a) = 0 THEN a ELSE Tail(a),
                                   IF Len(b) = 0 THEN b ELSE Tail(b),
                                   t \div 10)

BigAdd(a, b) == Trim(BigAddC(a, b, 0))

RECURSIVE BigMulDigitC(_, _, _)
BigMulDigitC(a, m, carry) ==
    IF Len(a) = 0 THEN (IF carry = 0 THEN <<>> ELSE <<carry>>)
    ELSE LET t == a[1] * m + carry
         IN  <<t % 10>> \o BigMulDigitC(Tail(a), m, t \div 10)

RECURSIVE BigMul(_, _)
BigMul(a, b) ==
    IF Len(b) = 0 THEN <<0>>
    ELSE BigAdd(BigMulDigitC(a, b[1], 0), <<0>> \o BigMul(a, Tail(b)))

\* quotient and remainder of d by a machine integer m > 0
RECURSIVE BigDivMod(_, _)
BigDivMod(d, m) ==
    IF Len(d) = 0 THEN [q |-> <<>>, r |-> 0]
    ELSE LET hi  == BigDivMod(Tail(d), m)
             cur == hi.r * 10 + d[1]
         IN  [q |-> <<cur \div m>> \o hi.q, r |-> cur % m]

\* (d + f) / 10^k rounded half to even, 0 <= f < 1, f > 0 iff more
RoundAtMore(d, k, more) ==
    LET padded == IF Len(d) > k THEN d
                  ELSE d \o [i \in 1..(k + 1 - Len(d)) |-> 0]
        q      == SubSeq(padded, k + 1, Len(padded))
        r      == SubSeq(padded, 1, k)
        rest   == more \/ \E i \in 1..(k - 1) : r[i] # 0
        above  == k > 0 /\ (r[k] > 5 \/ (r[k] = 5 /\ rest))
        tie    == k > 0 /\ r[k] = 5 /\ ~rest
    IN  IF above \/ (tie /\ q[1] % 2 = 1) THEN BigAdd(q, <<1>>) ELSE Trim(q)

\* d / 10^k rounded half to even; d * 10^-k when k < 0
RoundAt(d, k) ==
    IF k < 0 THEN Trim([i \in 1..(0 - k) |-> 0] \o d)
    ELSE RoundAtMore(d, k, FALSE)

Abs(n) == IF n < 0 THEN 0 - n ELSE n

\* a decimal: (-1)^neg * digits * 10^-exp
Dec(neg, digits, exp) == [neg |-> neg, digits |-> Trim(digits), exp |-> exp]
DecOfInt(n, exp) == Dec(n < 0, Digits(Abs(n)), exp)
DecMul(x, y) ==
    Dec(x.neg # y.neg, BigMul(x.digits, y.digits), x.exp + y.exp)
DecIsZero(x) == x.digits = <<0>>
DecPositive(x) == ~x.neg /\ ~DecIsZero(x)
\* x < 10^-n, for x > 0
DecBelowPow(x, n) == Len(x.digits) <= x.exp - n
\* int(x), for x >= 0
DecFloor(x) ==
    IF Len(x.digits) <= x.exp THEN 0
    ELSE ToInt(SubSeq(x.digits, x.exp + 1, Len(x.digits)))

\* round(x, n) as a signed integer count of 10^-n
Round(x, n) ==
    LET q == ToInt(RoundAt(x.digits, x.exp - n))
    IN  IF x.neg THEN 0 - q ELSE q

\* round(x / m, n) as an integer count of 10^-n, for x >= 0 held with more
\* than n decimals and a machine integer m > 0
RoundDiv(x, m, n) ==
    LET qr == BigDivMod(x.digits, m)
    IN  ToInt(RoundAtMore(Trim(qr.q), x.exp - n, qr.r # 0))

-----------------------------------------------------------------------------
(* utils.py: format_environmental_response                                 *)
(* The raw quantities are decimals; the fields of the formatted result are *)
(* integer counts of the unit their rounding leaves:                       *)
(*   energy_wh 10^-6, co2_emissions_g 10^-6, carbon_intensity_g_kwh 10^-2, *)
(*   tree_equivalent 10^-3, phone_charges 10^-2, miles_driven 10^-3,       *)
(*   led_hours 10^-1, laptop_hours 10^-2.                                  *)

\* f"{x:.1f}" for x >= 0
Fixed1(x) ==
    LET q == Round(x, 1)
    IN  ToString(q \div 10) \o "." \o ToString(q % 10)

generate_tree_equivalent_text(tree_equivalent) ==
    IF ~DecPositive(tree_equivalent)
    THEN "negligible environmental impact"
    ELSE IF DecBelowPow(tree_equivalent, 2)
    THEN "less than 1% of what a tree absorbs daily"
    ELSE IF DecBelowPow(tree_equivalent, 1)
    THEN LET percent == Round(DecMul(tree_equivalent, DecOfInt(100, 0)), 0)
         IN  ToString(percent) \o "% of what a tree absorbs daily"
    ELSE IF DecBelowPow(tree_equivalent, 0)
    THEN "same CO2 as " \o Fixed1(tree_equivalent) \o " of a tree absorbs daily"
    ELSE IF DecFloor(tree_equivalent) < 2
    THEN "same CO2 as " \o Fixed1(tree_equivalent) \o " tree absorbs daily"
    ELSE "same CO2 as " \o Fixed1(tree_equivalent) \o " trees absorb daily"

PHONE_CHARGE_CO2 == 8
CAR_CO2_PER_MILE == 411
LAPTOP_CO2_PER_HOUR == 20

calculate_additional_equivalents(co2_grams) ==
    IF ~DecPositive(co2_grams)
    THEN [phone_charges |-> 0, miles_driven |-> 0,
          led_hours |-> 0, laptop_hours |-> 0]
    ELSE [phone_charges |-> RoundDiv(co2_grams, PHONE_CHARGE_CO2, 2),
          miles_driven  |-> RoundDiv(co2_grams, CAR_CO2_PER_MILE, 3),
          \* co2_grams / 0.5
          led_hours     |-> Round(DecMul(co2_grams, DecOfInt(2, 0)), 1),
          laptop_hours  |-> RoundDiv(co2_grams, LAPTOP_CO2_PER_HOUR, 2)]

\* the try block; float() of the four numbers cannot raise on the numbers the
\* pipeline hands over, so the except branch is never taken
format_environmental_response(data) ==
    [energy_wh              |-> Round(data.energy_wh, 6),
     co2_emissions_g        |-> Round(data.co2_emissions_g, 6),
     carbon_intensity_g_kwh |-> Round(data.carbon_intensity_g_kwh, 2),
     tree_equivalent        |-> Round(data.tree_equivalent, 3),
     equivalent_text        |-> generate_tree_equivalent_text(data.tree_equivalent),
     source                 |-> data.source,
     location               |-> data.location,
     timestamp              |-> data.timestamp,
     additional_equivalents |->
         calculate_additional_equivalents(data.co2_emissions_g)]

-----------------------------------------------------------------------------
(* app.py: calculate_impact                                                *)

\* request.get_json(): a JSON object, or a body that does not parse
Json(data)  == [parsed |-> TRUE, data |-> data]
Unparseable == [parsed |-> FALSE]

\* data.get(key, default)
Get(data, key, default) == IF key \in DOMAIN data THEN data[key] ELSE default

\* (energy_wh / 1000) * carbon_intensity_g_kwh
co2_emissions_of(energy_wh, carbon_intensity_g_kwh) ==
    DecMul(DecOfInt(energy_wh, 5 + 3), DecOfInt(carbon_intensity_g_kwh, 6))

\* variant: 5 g of CO2 per tree and day
tree_equivalent_of_FiveGrams(co2_emissions_g) ==
    DecMul(co2_emissions_g, DecOfInt(2, 1))

\* co2_emissions_g / 50.0, that is co2_emissions_g * 0.02
tree_equivalent_of(co2_emissions_g) ==
    DecMul(co2_emissions_g, DecOfInt(2, 2))

\* what the handler leaves behind: the response, the cache and the provider
\* token afterwards, the provider requests it made, and the raw quantities
Handled(status, body, cache, token, reqs, raw) ==
    [status |-> status, body |-> body, cache |-> cache, token |-> token,
     requests |-> reqs, raw |-> raw]

NoRaw == [computed |-> FALSE, cached |-> FALSE]

\* the one element of a singleton: Only({F(x) : x \in {e}}) is F(e), with e
\* evaluated once
Only(S) == CHOOSE x \in S : TRUE

\* lines 94-116, the handler up to the cache lookup: it returns from there, or
\* goes on with the fields it has read
Returns(status, body, cached) ==
    [returned |-> TRUE, status |-> status, body |-> body, cached |-> cached]

read_request(cache, request, now) ==
    IF ~request.parsed
    THEN \* get_json raises, `except Exception` answers
         Returns(500, [error |-> "Internal server error"], FALSE)
    ELSE IF DOMAIN request.data = {}
    THEN Returns(400, [error |-> "No JSON data provided"], FALSE)
    ELSE
    LET data == request.data
        validation_error == validate_request_data(data)
    IN  IF Truthy(validation_error)
        THEN Returns(400, [error |-> validation_error.v], FALSE)
        ELSE
        LET model         == data["model"]
            input_tokens  == data["input_tokens"]
            output_tokens == data["output_tokens"]
            timestamp     == Get(data, "timestamp", Str(now))
            location      == Get(data, "location", Str("us-west-1"))
            cache_key     == CacheKey(model, input_tokens, output_tokens,
                                      location)
        IN  IF cache_key \in KeySet(cache)
            THEN Returns(200, get_cached_result(cache, cache_key), TRUE)
            ELSE [returned |-> FALSE, model |-> model,
                  input_tokens |-> input_tokens,
                  output_tokens |-> output_tokens,
                  timestamp |-> timestamp, location |-> location,
                  cache_key |-> cache_key,
                  clock |-> "timestamp" \notin DOMAIN data]

\* lines 118-153, from the energy to the response, on the fields read
calculate(cache, svc, read, em, login, wt) ==
    Only({
     Only({
      Only({
       Only({
          Handled(200, result, cache_result(cache, read.cache_key, result),
                  carbon.token, carbon.requests,
                  [computed |-> TRUE, cached |-> FALSE,
                   energy_wh |-> energy_wh,
                   carbon_intensity_g_kwh |-> carbon.intensity,
                   carbon_source |-> carbon.source,
                   cache_key |-> read.cache_key]) :
          result \in {format_environmental_response(
                        [energy_wh |-> DecOfInt(energy_wh, 5),
                         co2_emissions_g |-> co2_emissions_g,
                         carbon_intensity_g_kwh |-> DecOfInt(carbon.intensity, 6),
                         tree_equivalent |-> tree_equivalent,
                         source |-> "custom_ecologits_inspired",
                         location |-> read.location,
                         timestamp |-> read.timestamp])} }) :
        tree_equivalent \in {tree_equivalent_of(co2_emissions_g)} }) :
       co2_emissions_g \in {co2_emissions_of(energy_wh, carbon.intensity)} }) :
      energy_wh \in {calculate_energy_consumption(
                       read.model, IntOf(read.input_tokens),
                       IntOf(read.output_tokens))},
      carbon \in {get_carbon_intensity(svc, read.location, read.timestamp,
                                       em, login, wt)} })

\* variant: a result served from the cache is given the timestamp of the
\* request it answers
calculate_impact_RestampsHit(cache, svc, request, now, em, login, wt) ==
    Only({ IF read.returned
           THEN Handled(read.status,
                        IF read.cached
                        THEN [read.body EXCEPT
                                !.timestamp = Get(request.data, "timestamp",
                                                  Str(now))]
                        ELSE read.body,
                        cache, svc.watt_time_token,
                        <<>>, [NoRaw EXCEPT !.cached = read.cached])
           ELSE calculate(cache, svc, read, em, login, wt) :
           read \in {read_request(cache, request, now)} })

\* variant: a request that is refused empties the cache
calculate_impact_ClearsOnRefusal(cache, svc, request, now, em, login, wt) ==
    Only({ IF read.returned
           THEN Handled(read.status, read.body,
                        IF read.status = 400 THEN <<>> ELSE cache,
                        svc.watt_time_token,
                        <<>>, [NoRaw EXCEPT !.cached = read.cached])
           ELSE calculate(cache, svc, read, em, login, wt) :
           read \in {read_request(cache, request, now)} })

\* one request handled by calculate_impact, on cache `cache` and service `svc`;
\* now is datetime.now(timezone.utc).isoformat(), em, login and wt are what the
\* provider endpoints do if asked
calculate_impact(cache, svc, request, now, em, login, wt) ==
    Only({ IF read.returned
           THEN Handled(read.status, read.body, cache, svc.watt_time_token,
                        <<>>, [NoRaw EXCEPT !.cached = read.cached])
           ELSE calculate(cache, svc, read, em, login, wt) :
           read \in {read_request(cache, request, now)} })

\* the provider requests the handler makes for the request
provider_requests(cache, svc, request, em, login, wt) ==
    Only({ IF read.returned THEN <<>>
           ELSE get_carbon_intensity(svc, read.location, read.timestamp,
                                     em, login, wt).requests :
           read \in {read_request(cache, request, "")} })

\* whether the default timestamp, the clock, reaches the result
reads_clock(cache, request) ==
    Only({ ~read.returned /\ read.clock :
           read \in {read_request(cache, request, "")} })

-----------------------------------------------------------------------------
(* Requests to /calculate-impact                                           *)

MaxImpactCalls == 2

Clock == {"2025-06-25T10:30:01+00:00", "2025-06-25T11:00:00+00:00"}

Example == "claude-3-5-sonnet-20241022"
Iso == Str("2025-06-25T10:30:00Z")

ImpactRequests ==
    { Json(Body(Str(Example), IntV(150), IntV(500), Iso, Str("us-west-1"))),
      Json(Body(Str(Example), IntV(150), IntV(500), Absent, Str("us-west-1"))),
      Json(Body(Str(Example), IntV(150), IntV(500), Absent, Absent)),
      Json(Body(Str(Example), IntV(150), IntV(500), Iso, Null)),
      Json(Body(Str(Example), IntV(0), IntV(0), Iso, Str(""))),
      Json(Body(Str("claude-3-opus-20240229"), IntV(TokenLimit), IntV(TokenLimit),
                Iso, Str("DE"))),
      Json(Body(Str("HAIKUgpt"), Bool(TRUE), IntV(TokenLimit), Iso, Str("ohio"))),
      Json(Body(Absent, IntV(150), IntV(500), Absent, Absent)),
      Json(Body(Str(Example), IntV(-1), IntV(500), Absent, Absent)),
      Json(Body(Absent, Absent, Absent, Absent, Absent)),
      Json(Body(Str("claude-v2:1"), IntV(100), IntV(200), Iso, Str("us-west-1"))),
      Json(Body(Str("claude-v2"), IntV(1), IntV(100), Iso, Str("200:us-west-1"))),
      Unparseable }

ImpactEM    == {Raises, OkDict(Num(250)), OkDict(Num(-5))}
ImpactLogin == {Status(403), OkDict(Str("tokB"))}
ImpactWT    == {BadJson, OkDict(Num(800))}

\* one request, handled to its response.  An endpoint answers, and the clock
\* is drawn, only if the handler uses it.
CalculateImpact ==
    /\ impact_calls < MaxImpactCalls
    /\ \E request \in ImpactRequests :
       \E em \in IF "electricitymaps" \in Endpoints(provider_requests(
                       cache_dict, Service, request, Raises, Raises, Raises))
                 THEN ImpactEM ELSE {NotAsked} :
       \E login \in IF "watttime_login" \in Endpoints(provider_requests(
                       cache_dict, Service, request, em, Raises, Raises))
                    THEN ImpactLogin ELSE {NotAsked} :
       \E wt \in IF "watttime_index" \in Endpoints(provider_requests(
                       cache_dict, Service, request, em, login, Raises))
                 THEN ImpactWT ELSE {NotAsked} :
       \E now \in IF reads_clock(cache_dict, request) THEN Clock ELSE {""} :
       \E h \in {calculate_impact(cache_dict, Service, request, now, em,
                                  login, wt)} :
          /\ cache_dict' = h.cache
          /\ watt_time_token' = h.token
          /\ watt_time_rejected' =
               token_rejected(watt_time_rejected, h.requests, wt)
          /\ impact_call' =
               [op |-> "calculate_impact", request |-> request,
                now |-> now, em |-> em, login |-> login, wt |-> wt,
                status |-> h.status, body |-> h.body, raw |-> h.raw,
                requests |-> h.requests]
          /\ impact_calls' = impact_calls + 1
    /\ UNCHANGED <<calcVars, valVars, electricity_maps_token,
                   watt_time_username, watt_time_password, carbon_call,
                   cache_call, cache_writes, writers, batchVars,
                   healthVars>>

InitImpact ==
    /\ CalcIdle
    /\ ValIdle
    /\ CacheEmpty
    /\ ImpactIdle
    /\ BatchIdle
    /\ HealthIdle
    /\ electricity_maps_token \in {Null, Str("em-key")}
    /\ \E configured \in BOOLEAN :
          /\ watt_time_username = IF configured THEN Str("user") ELSE Null
          /\ watt_time_password = IF configured THEN Str("pw") ELSE Null
    /\ watt_time_token = Null
    /\ watt_time_rejected = FALSE
    /\ carbon_call = NoCall

NextImpact == CalculateImpact

SpecImpact == InitImpact /\ [][NextImpact]_vars

-----------------------------------------------------------------------------
(* Claims about the calculate-impact pipeline                              *)

ImpactDone == impact_call.op = "calculate_impact"
ImpactOk   == ImpactDone /\ impact_call.status = 200

\* C4 as stated: in every result returned for a valid request the
\* tree_equivalent field equals the co2_emissions_g field divided by 50.0
\* (tree_equivalent counts 10^-3, co2_emissions_g counts 10^-6).
C4_TreeEqualsCo2Over50 ==
    ImpactOk =>
        impact_call.body.tree_equivalent * 50000 = impact_call.body.co2_emissions_g

\* C4 amended: tree_equivalent is the unrounded emissions
\* (energy_wh / 1000 * carbon intensity) divided by 50.0 and rounded to 3
\* decimals, co2_emissions_g is the same unrounded emissions rounded to 6
\* decimals; the two fields of every result returned, computed or served from
\* the cache, differ by at most half a unit of the third decimal:
\* |tree_equivalent - co2_emissions_g / 50| <= 0.0005 + 0.00000001.
C4_TreeEquivalentRounded ==
    ImpactOk =>
        LET r == impact_call.body
        IN  /\ Abs(r.tree_equivalent * 50000 - r.co2_emissions_g) <= 25000
            /\ impact_call.raw.computed =>
                 LET x == co2_emissions_of(impact_call.raw.energy_wh,
                                           impact_call.raw.carbon_intensity_g_kwh)
                 IN  /\ r.co2_emissions_g = Round(x, 6)
                     /\ r.tree_equivalent = Round(DecMul(x, DecOfInt(2, 2)), 3)

C4_Witness ==
    /\ ImpactOk
    /\ impact_call.raw.computed
    /\ impact_call.request =
         Json(Body(Str(Example), IntV(150), IntV(500), Iso, Str("us-west-1")))
    /\ impact_call.raw.carbon_source = "fallback"
    /\ impact_call.body.co2_emissions_g = 61250
    /\ impact_call.body.tree_equivalent = 1

-----------------------------------------------------------------------------
(* Claims about the validator's rejections                                 *)

\* the defect class of the value of one field: "none" for a value the rules
\* allow, one of the five classes of C11, or "other"
ModelDefect(m) ==
    IF m.t = "str" THEN (IF Len(strip(m.v)) = 0 THEN "empty_model" ELSE "none")
    ELSE "other"

TokenDefect(x) ==
    CASE x.t = "int" -> (IF x.v < 0 THEN "negative"
                         ELSE IF x.v > TokenLimit THEN "too_large" ELSE "none")
      [] x.t \in {"str", "float", "bool", "null"} -> "non_integer"
      [] OTHER -> "other"

TimestampDefect(ts) ==
    CASE ts.t = "absent" -> "none"
      [] ts.t = "str" -> (IF ts.v \in IsoStrings THEN "none"
                          ELSE "malformed_timestamp")
      [] OTHER -> "other"

LocationDefect(loc) ==
    IF loc.t = "absent" \/ NonEmptyString(loc) THEN "none" ELSE "other"

\* the defects of a body, one entry per field
FieldDefects(data) ==
    << ModelDefect(Field(data, "model")),
       TokenDefect(Field(data, "input_tokens")),
       TokenDefect(Field(data, "output_tokens")),
       TimestampDefect(Field(data, "timestamp")),
       LocationDefect(Field(data, "location")) >>

DefectiveFields(data) == {n \in 1..5 : FieldDefects(data)[n] # "none"}

C11Classes ==
    {"empty_model", "negative", "non_integer", "too_large", "malformed_timestamp"}

\* the body has one defect only, and it is of a class C11 names
SoleDefect(data) ==
    /\ Cardinality(DefectiveFields(data)) = 1
    /\ \A n \in DefectiveFields(data) : FieldDefects(data)[n] \in C11Classes

SoleDefectClass(data) ==
    FieldDefects(data)[CHOOSE n \in DefectiveFields(data) : TRUE]

\* bodies with one defect each, every class and every field it can sit in
SoleDefectBodies ==
    LET model == Str("claude-3-5-sonnet-20241022")
        ok    == IntV(150)
        bad   == {IntV(-1), IntV(TokenLimit + 1), Str("12"), Float(1),
                  Bool(TRUE), Null}
    IN  {Body(m, ok, ok, Absent, Absent) : m \in {Str(""), Str("  ")}}
          \cup {Body(model, x, ok, Absent, Absent) : x \in bad}
          \cup {Body(model, ok, x, Absent, Absent) : x \in bad}
          \cup {Body(model, ok, ok, ts, Absent) :
                  ts \in {Str(""), Str(" "), Str("not-a-date")}}

\* C11: a record whose only defect is an empty or whitespace-only model, a
\* negative token count, a non-integer token count (string, float, boolean,
\* null), a token count above 1,000,000 or a malformed timestamp string is
\* rejected with a message; the message is the one every call on that record
\* gives, and no record whose only defect is of another class gets it.
C11_RejectsEachDefectClass ==
    (ValDone /\ SoleDefect(val_call.data)) =>
        /\ val_call.error # Null
        /\ val_call.error = validate_request_data(val_call.data)
        /\ \A other \in SoleDefectBodies :
              SoleDefectClass(other) # SoleDefectClass(val_call.data)
                 => validate_request_data(other) # val_call.error

\* C12: a record that holds the key location is accepted only if the value is
\* a non-empty string; a present location that is empty, whitespace-only, null
\* or no string is rejected, and with the location message when the record
\* has no other defect.
C12_PresentLocationNonEmpty ==
    (ValDone /\ "location" \in DOMAIN val_call.data) =>
        LET location == val_call.data["location"]
        IN  /\ val_call.error = Null => NonEmptyString(location)
            /\ (~NonEmptyString(location)
                  /\ DefectiveFields(val_call.data) = {5}
                  /\ DOMAIN val_call.data = AllFields \ {"timestamp"})
                 => val_call.error = Str("location must be a non-empty string")

-----------------------------------------------------------------------------
(* app.py: batch_calculate                                                 *)
(* The body of a batch request holds a list under "records"; a record is   *)
(* a JSON object (a body as above) or another JSON value (tagged).         *)

List(seq) == [t |-> "list", v |-> seq]

BATCH_MAX_SIZE == 1000

IsObject(record) == "t" \notin DOMAIN record

\* str(e) of the TypeError `response[1]` raises when calculate_impact has
\* returned jsonify(...), a Response and no (response, status) pair
NotSubscriptable == "'Response' object is not subscriptable"

\* str(e) of the TypeError `field not in data` raises on a number
NotIterable == "argument of type 'int' is not iterable"

\* the loop body, lines 189-206, for the record at 0-based index i: the entry
\* appended to results, and the effects of the calculation on the cache and
\* the provider token.  `inner` is what calculate_impact returned, if called.
Entry(entry, cache, token, reqs, inner) ==
    [entry |-> entry, cache |-> cache, token |-> token, requests |-> reqs,
     inner |-> inner]

NotCalled == [called |-> FALSE]

\* variant: no try around the loop body, an exception leaves the loop with
\* no entry (Null)
process_record_NoTry(cache, svc, record, i, now, em, login, wt) ==
    IF ~IsObject(record)
    THEN Entry(Null, cache, svc.watt_time_token, <<>>, NotCalled)
    ELSE
    LET validation_error == validate_request_data(record)
    IN  IF Truthy(validation_error)
        THEN Entry([error |-> "Record " \o ToString(i) \o ": "
                                 \o validation_error.v],
                   cache, svc.watt_time_token, <<>>, NotCalled)
        ELSE
        Only({ Entry(IF h.status = 200
                     THEN Null
                     ELSE [error |-> "Calculation failed for record "
                                       \o ToString(i)],
                     h.cache, h.token, h.requests,
                     [called |-> TRUE, status |-> h.status, body |-> h.body]) :
               h \in {calculate_impact(cache, svc, Json(record), now, em,
                                       login, wt)} })

process_record(cache, svc, record, i, now, em, login, wt) ==
    IF ~IsObject(record)
    THEN \* validate_request_data raises
         Entry([error |-> "Record " \o ToString(i) \o ": " \o NotIterable],
               cache, svc.watt_time_token, <<>>, NotCalled)
    ELSE
    LET validation_error == validate_request_data(record)
    IN  IF Truthy(validation_error)
        THEN Entry([error |-> "Record " \o ToString(i) \o ": "
                                 \o validation_error.v],
                   cache, svc.watt_time_token, <<>>, NotCalled)
        ELSE
        Only({ Entry(IF h.status = 200
                     THEN \* a Response: response[1] raises, except answers
                          [error |-> "Record " \o ToString(i) \o ": "
                                       \o NotSubscriptable]
                     ELSE \* a pair whose status is not 200
                          [error |-> "Calculation failed for record "
                                       \o ToString(i)],
                     h.cache, h.token, h.requests,
                     [called |-> TRUE, status |-> h.status, body |-> h.body]) :
               h \in {calculate_impact(cache, svc, Json(record), now, em,
                                       login, wt)} })

\* the for loop over records lo..hi (1-based), acc the state reached before
\* record lo; the range is halved so that a long list nests only to the depth
\* of its logarithm, the records are still taken in order
RECURSIVE process_records(_, _, _, _, _, _, _, _, _)
process_records(acc, svc, records, lo, hi, now, em, login, wt) ==
    IF lo > hi \/ acc.raised THEN acc
    ELSE IF lo = hi
    THEN Only({ [results  |-> Append(acc.results, e.entry),
                 inner    |-> Append(acc.inner, e.inner),
                 cache    |-> e.cache,
                 token    |-> e.token,
                 requests |-> acc.requests \o e.requests,
                 \* an exception leaving the loop body; the except of line
                 \* 204 catches every one, so none does
                 raised   |-> e.entry = Null] :
                e \in {process_record(
                         acc.cache, [svc EXCEPT !.watt_time_token = acc.token],
                         records[lo], lo - 1, now, em, login, wt)} })
    ELSE Only({ process_records(first, svc, records, ((lo + hi) \div 2) + 1,
                                hi, now, em, login, wt) :
                first \in {process_records(acc, svc, records, lo,
                                           (lo + hi) \div 2, now, em, login,
                                           wt)} })

\* what the batch handler leaves behind
Batched(status, body, cache, token, reqs, inner) ==
    [status |-> status, body |-> body, cache |-> cache, token |-> token,
     requests |-> reqs, inner |-> inner]

\* one request handled by batch_calculate; the providers and the clock answer
\* every record of the batch alike
batch_calculate(cache, svc, request, now, em, login, wt) ==
    IF ~request.parsed
    THEN Batched(500, [error |-> "Internal server error"], cache,
                 svc.watt_time_token, <<>>, <<>>)
    ELSE IF DOMAIN request.data = {} \/ "records" \notin DOMAIN request.data
    THEN Batched(400, [error |-> "No records provided"], cache,
                 svc.watt_time_token, <<>>, <<>>)
    ELSE
    LET records == request.data["records"]
    IN  IF records.t # "list"
        THEN \* len(records) raises on null or a number
             Batched(500, [error |-> "Internal server error"], cache,
                     svc.watt_time_token, <<>>, <<>>)
        ELSE IF Len(records.v) > BATCH_MAX_SIZE
        THEN Batched(400, [error |-> "Batch size too large (max 1000)"], cache,
                     svc.watt_time_token, <<>>, <<>>)
        ELSE
        Only({ IF done.raised
               THEN Batched(500, [error |-> "Internal server error"],
                            done.cache, done.token, done.requests, done.inner)
               ELSE Batched(200, [results |-> done.results], done.cache,
                            done.token, done.requests, done.inner) :
               done \in {process_records(
                           [results |-> <<>>, inner |-> <<>>, cache |-> cache,
                            token |-> svc.watt_time_token, requests |-> <<>>,
                            raised |-> FALSE],
                           svc, records.v, 1, Len(records.v), now, em, login,
                           wt)} })

\* whether some record of the batch has the clock reach its result
batch_reads_clock(cache, request) ==
    /\ request.parsed
    /\ "records" \in DOMAIN request.data
    /\ request.data["records"].t = "list"
    /\ Len(request.data["records"].v) <= BATCH_MAX_SIZE
    /\ \E n \in 1..Len(request.data["records"].v) :
          LET record == request.data["records"].v[n]
          IN  /\ IsObject(record)
              /\ reads_clock(cache, Json(record))

-----------------------------------------------------------------------------
(* Requests to /batch-calculate                                            *)

MaxBatchCalls == 1

Repeat(x, n) == [k \in 1..n |-> x]

Documented == Body(Str(Example), IntV(150), IntV(500), Iso, Str("us-west-1"))
Minimal    == Body(Str(Example), IntV(150), IntV(500), Absent, Absent)
Opus       == Body(Str("claude-3-opus-20240229"), IntV(1000), IntV(2000), Iso,
                   Str("DE"))
NoModel    == Body(Absent, IntV(150), IntV(500), Absent, Absent)
Negative   == Body(Str(Example), IntV(-1), IntV(500), Absent, Absent)
Empty      == Body(Absent, Absent, Absent, Absent, Absent)

BatchRequests ==
    { Json([records |-> List(<<>>)]),
      Json([records |-> List(<<Documented>>)]),
      Json([records |-> List(<<Documented, Documented>>)]),
      Json([records |-> List(<<Documented, NoModel, Opus>>)]),
      Json([records |-> List(<<Opus, Documented>>)]),
      Json([records |-> List(<<NoModel, Minimal>>)]),
      Json([records |-> List(<<Negative, NoModel>>)]),
      Json([records |-> List(<<IntV(5), Minimal>>)]),
      Json([records |-> List(Repeat(IntV(5), BATCH_MAX_SIZE))]),
      Json([records |-> List(Repeat(NoModel, BATCH_MAX_SIZE + 1))]),
      Json([records |-> Null]),
      Json([record |-> List(<<Documented>>)]),
      Json(Empty),
      Unparseable }

\* one batch, handled to its response.  An endpoint answers, and the clock is
\* drawn, only if the handler uses it.
BatchCalculate ==
    /\ batch_calls < MaxBatchCalls
    /\ \E request \in BatchRequests :
       \E em \in IF "electricitymaps" \in Endpoints(batch_calculate(
                       cache_dict, Service, request, "", Raises, Raises,
                       Raises).requests)
                 THEN ImpactEM ELSE {NotAsked} :
       \E login \in IF "watttime_login" \in Endpoints(batch_calculate(
                       cache_dict, Service, request, "", em, Raises,
                       Raises).requests)
                    THEN ImpactLogin ELSE {NotAsked} :
       \E wt \in IF "watttime_index" \in Endpoints(batch_calculate(
                       cache_dict, Service, request, "", em, login,
                       Raises).requests)
                 THEN ImpactWT ELSE {NotAsked} :
       \E now \in IF batch_reads_clock(cache_dict, request)
                  THEN Clock ELSE {""} :
       \E b \in {batch_calculate(cache_dict, Service, request, now, em,
                                 login, wt)} :
          /\ cache_dict' = b.cache
          /\ watt_time_token' = b.token
          /\ watt_time_rejected' =
               token_rejected(watt_time_rejected, b.requests, wt)
          /\ batch_call' =
               [op |-> "batch_calculate", request |-> request,
                now |-> now, em |-> em, login |-> login, wt |-> wt,
                cache_before |-> cache_dict, token_before |-> watt_time_token,
                status |-> b.status, body |-> b.body, inner |-> b.inner,
                requests |-> b.requests]
          /\ batch_calls' = batch_calls + 1
    /\ UNCHANGED <<calcVars, valVars, electricity_maps_token,
                   watt_time_username, watt_time_password, carbon_call,
                   cache_call, cache_writes, writers, impactVars,
                   healthVars>>

InitBatch == InitImpact

NextBatch == BatchCalculate

SpecBatch == InitBatch /\ [][NextBatch]_vars

BatchDone == batch_call # NoCall

BatchRecords == batch_call.request.data["records"].v

BatchAnswered == BatchDone /\ batch_call.status = 200

\* C13: in the batch handler, the record at index i (zero-based) that passes
\* validation gets in slot i the full result calculate_impact returned for
\* it, and a record that fails validation gets
\* {error: "Record i: <validator message>"}.
C13_BatchSlots ==
    BatchAnswered =>
        \A n \in 1..Len(BatchRecords) :
           IsObject(BatchRecords[n]) =>
              LET validation_error == validate_request_data(BatchRecords[n])
              IN  IF validation_error = Null
                  THEN /\ batch_call.inner[n].called
                       /\ batch_call.inner[n].status = 200
                       /\ batch_call.body.results[n] = batch_call.inner[n].body
                  ELSE batch_call.body.results[n] =
                          [error |-> "Record " \o ToString(n - 1) \o ": "
                                        \o validation_error.v]

\* a request whose body holds a list of at most BATCH_MAX_SIZE records
BatchListed ==
    /\ BatchDone
    /\ batch_call.request.parsed
    /\ "records" \in DOMAIN batch_call.request.data
    /\ batch_call.request.data["records"].t = "list"
    /\ Len(BatchRecords) <= BATCH_MAX_SIZE

\* the record fails on its own: validation answers a message or raises
Fails(record) ==
    ~IsObject(record) \/ validate_request_data(record) # Null

HasPrefix(text, prefix) ==
    /\ Len(text) >= Len(prefix)
    /\ SubSeq(text, 1, Len(prefix)) = prefix

\* the entry stands for the record at 0-based index i
EntryOf(entry, i, inner) ==
    IF "error" \in DOMAIN entry
    THEN \/ HasPrefix(entry.error, "Record " \o ToString(i) \o ": ")
         \/ entry.error = "Calculation failed for record " \o ToString(i)
    ELSE inner.called /\ entry = inner.body

\* the positions at which a record is replaced: the first three and the last
Replaced == {m \in 1..Len(BatchRecords) : m <= 3 \/ m = Len(BatchRecords)}

\* failing records put in the place of a failing record
Replacements == {NoModel, Negative, IntV(5)}

\* the results of the same batch, same cache, token and providers, with
\* record m replaced
ResultsWith(m, record) ==
    batch_calculate(
        batch_call.cache_before,
        [Service EXCEPT !.watt_time_token = batch_call.token_before],
        Json([records |-> List([BatchRecords EXCEPT ![m] = record])]),
        batch_call.now, batch_call.em, batch_call.login, batch_call.wt)

\* C14: a batch of n <= 1000 records is answered with exactly n entries,
\* entry i standing for record i; a record that fails is answered in its own
\* slot, aborts nothing, and which failure it is changes no other entry.
C14_BatchIsolation ==
    BatchListed =>
        /\ batch_call.status = 200
        /\ Len(batch_call.body.results) = Len(BatchRecords)
        /\ \A n \in 1..Len(BatchRecords) :
              EntryOf(batch_call.body.results[n], n - 1, batch_call.inner[n])
        /\ \A m \in 1..Len(BatchRecords) :
              Fails(BatchRecords[m]) =>
                 "error" \in DOMAIN batch_call.body.results[m]
        /\ \A m \in Replaced :
              Fails(BatchRecords[m]) =>
                 /\ \A record \in Replacements :
                    \A other \in {ResultsWith(m, record)} :
                       /\ other.status = 200
                       /\ \A n \in 1..Len(BatchRecords) \ {m} :
                             other.body.results[n] = batch_call.body.results[n]

\* a batch of three answered, the record in the middle failing validation and
\* both its neighbours calculated
C14_Witness ==
    /\ BatchListed
    /\ Len(BatchRecords) = 3
    /\ Fails(BatchRecords[2])
    /\ ~Fails(BatchRecords[1]) /\ batch_call.inner[1].called
    /\ ~Fails(BatchRecords[3]) /\ batch_call.inner[3].called
    /\ Len(batch_call.body.results) = 3

\* the request handled last has a body that fails validation
ImpactRejected ==
    /\ ImpactDone
    /\ impact_call.request.parsed
    /\ DOMAIN impact_call.request.data # {}
    /\ validate_request_data(impact_call.request.data) # Null

\* C15: a request to calculate_impact that fails validation is answered 4xx
\* with the validator's message before anything is calculated: no energy, no
\* carbon intensity, no provider request, and the provider token and the
\* result cache stay as they were.
C15_RejectedBeforeCalculation ==
    [][(impact_calls' # impact_calls /\ ImpactRejected') =>
          /\ impact_call'.status \in 400..499
          /\ impact_call'.body =
                [error |-> validate_request_data(impact_call'.request.data).v]
          /\ impact_call'.requests = <<>>
          /\ ~impact_call'.raw.computed
          /\ ~impact_call'.raw.cached
          /\ cache_dict' = cache_dict
          /\ watt_time_token' = watt_time_token
          /\ watt_time_rejected' = watt_time_rejected]_vars

\* a request refused while the cache holds a result and a token is held
C15_Witness ==
    /\ ImpactRejected
    /\ impact_call.status = 400
    /\ cache_dict # <<>>
    /\ watt_time_token # Null

\* C16: no response body of the batch handler, its per-record error entries
\* included, carries the text of an internal exception: an error entry is
\* the validator's message for its record or the generic failure text, and
\* an error response is the refusal of the request or the generic failure.
C16_NoInternalDetail ==
    BatchDone =>
        IF batch_call.status = 200
        THEN \A n \in 1..Len(batch_call.body.results) :
                "error" \in DOMAIN batch_call.body.results[n] =>
                   \/ batch_call.body.results[n].error =
                         "Calculation failed for record " \o ToString(n - 1)
                   \/ /\ IsObject(BatchRecords[n])
                      /\ validate_request_data(BatchRecords[n]) # Null
                      /\ batch_call.body.results[n].error =
                            "Record " \o ToString(n - 1) \o ": "
                               \o validate_request_data(BatchRecords[n]).v
        ELSE batch_call.body.error \in
                {"No records provided", "Batch size too large (max 1000)",
                 "Internal server error"}

-----------------------------------------------------------------------------
(* app.py: health_check, with the two self-tests it calls                  *)

\* EcoLogitsCalculator.test_calculation: the calculation cannot raise here,
\* calculate_energy_consumption answers its own exceptions
test_calculation ==
    [status |-> "working",
     test_energy_wh |->
        calculate_energy_consumption(Str("claude-3-5-sonnet-20241022"),
                                     100, 200),
     supported_models_count |-> Cardinality(KnownModels)]

\* CarbonIntensityService.test_connection: each provider that is configured
\* is asked once; the token of the login is not kept
test_connection(svc, em, login) ==
    LET r1 == IF Truthy(svc.electricity_maps_token)
              THEN get_electricity_maps_intensity(
                       svc.electricity_maps_token, "us-west-1", em)
              ELSE Return(Null, <<>>)
        r2 == IF Truthy(svc.watt_time_username)
                   /\ Truthy(svc.watt_time_password)
              THEN authenticate_watt_time(svc.watt_time_username,
                                          svc.watt_time_password, login)
              ELSE Return(Null, <<>>)
    IN  [results |-> [electricity_maps |-> r1.value # Null,
                      watt_time |-> r2.value # Null,
                      fallback |-> TRUE],
         requests |-> r1.requests \o r2.requests]

\* whether the module defines the name redis_client: it does not, line 71 is
\* its only mention
redis_client_defined == FALSE

NameError == "name 'redis_client' is not defined"

\* health_check: both self-tests run, then the response is built; reading
\* redis_client raises NameError, which the except clause answers
health_check(svc, now, em, login) ==
    LET carbon_test == test_connection(svc, em, login)
    IN  [status |-> IF redis_client_defined THEN 200 ELSE 500,
         body |-> IF redis_client_defined
                  THEN [status |-> "healthy", timestamp |-> now,
                        services |-> [calculator |-> test_calculation,
                                      carbon_intensity |-> carbon_test.results,
                                      redis |-> TRUE]]
                  ELSE [status |-> "unhealthy", error |-> NameError],
         calculator |-> test_calculation,
         carbon_intensity |-> carbon_test.results,
         requests |-> carbon_test.requests]

-----------------------------------------------------------------------------
(* Requests to /health                                                     *)

MaxHealthCalls == 2

\* one GET /health, handled to its response; the clock is read while the
\* response is built, before redis_client
HealthCheck ==
    /\ health_calls < MaxHealthCalls
    /\ \E em \in IF Truthy(electricity_maps_token)
                 THEN EMResponses ELSE {NotAsked} :
       \E login \in IF Truthy(watt_time_username) /\ Truthy(watt_time_password)
                    THEN LoginResponses ELSE {NotAsked} :
       \E now \in Clock :
       \E h \in {health_check(Service, now, em, login)} :
          /\ health_call' =
               [op |-> "health_check", now |-> now, em |-> em,
                login |-> login, status |-> h.status, body |-> h.body,
                calculator |-> h.calculator,
                carbon_intensity |-> h.carbon_intensity,
                requests |-> h.requests]
          /\ health_calls' = health_calls + 1
    /\ UNCHANGED <<calcVars, carbonVars, cacheVars, valVars, impactVars,
                   batchVars>>

InitHealth == InitCarbon

NextHealth == HealthCheck

SpecHealth == InitHealth /\ [][NextHealth]_vars

HealthDone == health_call # NoCall

\* C17: GET /health answers "healthy" with the calculator's and the carbon
\* resolver's self-test results whenever both self-tests return; here both
\* always return, neither can raise.
C17_HealthyWhenSelfTestsPass ==
    HealthDone =>
        /\ health_call.status = 200
        /\ health_call.body.status = "healthy"
        /\ health_call.body.services.calculator = health_call.calculator
        /\ health_call.body.services.carbon_intensity =
              health_call.carbon_intensity

\* a result computed with no provider credential configured, for a location
\* that is a string
ComputedUnconfigured ==
    /\ ImpactOk
    /\ impact_call.raw.computed
    /\ electricity_maps_token = Null
    /\ watt_time_username = Null
    /\ watt_time_password = Null
    /\ Get(impact_call.request.data, "location", Str("us-west-1")).t = "str"

\* the emissions are (energy_wh / 1000) x the static table value of the
\* normalized location, no provider is asked
StaticTablePipeline ==
    ComputedUnconfigured =>
        LET location == Get(impact_call.request.data, "location",
                            Str("us-west-1"))
            table == get_fallback_intensity(normalize_location(location.v))
        IN  /\ impact_call.requests = <<>>
            /\ impact_call.raw.carbon_source = "fallback"
            /\ impact_call.raw.carbon_intensity_g_kwh = table
            /\ impact_call.body.carbon_intensity_g_kwh =
                  Round(DecOfInt(table, 6), 2)
            /\ impact_call.body.co2_emissions_g =
                  Round(co2_emissions_of(impact_call.raw.energy_wh, table), 6)

\* the documented request: claude-3-5-sonnet-20241022, 150 and 500 tokens,
\* location us-west-1
DocumentedRequest ==
    /\ ImpactDone
    /\ impact_call.request.parsed
    /\ AllFields \ {"timestamp"} \subseteq DOMAIN impact_call.request.data
    /\ impact_call.request.data["model"] = Str(Example)
    /\ impact_call.request.data["input_tokens"] = IntV(150)
    /\ impact_call.request.data["output_tokens"] = IntV(500)
    /\ impact_call.request.data["location"] = Str("us-west-1")

\* energy_wh = 0.175, carbon intensity 350, co2_emissions_g = 0.06125 and the
\* text of the lowest tier
DocumentedFigures ==
    (ComputedUnconfigured /\ DocumentedRequest) =>
        /\ impact_call.body.energy_wh = 175000
        /\ impact_call.body.carbon_intensity_g_kwh = 35000
        /\ impact_call.body.co2_emissions_g = 61250
        /\ impact_call.body.equivalent_text =
              "less than 1% of what a tree absorbs daily"

\* C18 as stated: with no provider credential the emissions come from the
\* static table, and the documented request gives energy_wh = 0.175,
\* intensity 350, co2_emissions_g = 0.06125, tree_equivalent = 0.001225
\* (tree_equivalent counts 10^-3, 0.001225 is 1225 * 10^-6).
C18_DocumentedTree001225 ==
    /\ StaticTablePipeline
    /\ DocumentedFigures
    /\ (ComputedUnconfigured /\ DocumentedRequest) =>
          impact_call.body.tree_equivalent * 1000 = 1225

\* C18 amended: the same, the documented request giving tree_equivalent =
\* 0.001, which is 0.06125 / 50 = 0.001225 rounded to 3 decimals.
C18_DocumentedTree001 ==
    /\ StaticTablePipeline
    /\ DocumentedFigures
    /\ (ComputedUnconfigured /\ DocumentedRequest) =>
          \A unrounded \in {tree_equivalent_of(co2_emissions_of(
                                impact_call.raw.energy_wh,
                                impact_call.raw.carbon_intensity_g_kwh))} :
             /\ Round(unrounded, 9) = 1225000
             /\ impact_call.body.tree_equivalent = Round(unrounded, 3)
             /\ impact_call.body.tree_equivalent = 1

C18_Witness ==
    /\ ComputedUnconfigured
    /\ DocumentedRequest
    /\ impact_call.raw.carbon_source = "fallback"
    /\ impact_call.body.energy_wh = 175000

CarbonCalled == carbon_call.op = "get_carbon_intensity"

\* the call got as far as the secondary provider: the primary was not
\* configured or missed, the region is a US region and the secondary
\* provider is configured
SecondaryReached ==
    /\ CarbonCalled
    /\ carbon_call.location.t = "str"
    /\ carbon_call.out.source \in {"watttime", "fallback"}
    /\ watt_time_applies(watt_time_username, carbon_call.out.normalized.v)
    /\ Truthy(watt_time_password)

LoginAttempted ==
    "watttime_login" \in Endpoints(carbon_call.out.requests)

\* C19: a call that reaches the secondary provider attempts a login exactly
\* when the service holds no usable token: none obtained yet, or the held
\* token was refused with a non-success status on an earlier fetch;
\* otherwise the held token is reused without a login.
C19_LoginOnDemand ==
    SecondaryReached =>
        (LoginAttempted <=>
            (~Truthy(carbon_call.token_before) \/ carbon_call.rejected_before))

\* the provider did not deliver: it raised, timed out, answered with a
\* status other than 200 or with a body that cannot be read
Failed(resp) == resp.kind \in {"exception", "status", "badjson"}

\* C20: every call of get_carbon_intensity returns, having sent at most one
\* request to each of the three endpoints; a provider that fails is not asked
\* again within the call, the next tier answers.
C20_NoRetry ==
    CarbonCalled =>
        LET reqs == carbon_call.out.requests
        IN  /\ ~carbon_call.out.raised
            /\ Len(reqs) <= 3
            /\ \A i, k \in 1..Len(reqs) :
                  i # k => reqs[i].endpoint # reqs[k].endpoint
            /\ Endpoints(reqs) \subseteq
                  {"electricitymaps", "watttime_login", "watttime_index"}
            /\ Failed(carbon_call.em) =>
                  carbon_call.out.source # "electricitymaps"
            /\ (Failed(carbon_call.login) \/ Failed(carbon_call.wt)) =>
                  carbon_call.out.source # "watttime"

\* a call in which the primary provider raises, the login succeeds and the
\* secondary fetch is refused: three requests, the static table answers
C20_Witness ==
    /\ CarbonCalled
    /\ carbon_call.em = Raises
    /\ carbon_call.login.kind = "ok"
    /\ carbon_call.wt.kind = "status"
    /\ Len(carbon_call.out.requests) = 3
    /\ carbon_call.out.source = "fallback"

-----------------------------------------------------------------------------
(* carbon_intensity.py: estimate_daily_variation                           *)

\* base * tenths / 10; every table value is a whole number of g/kWh, the
\* division comes first to stay inside 32 bits
Tenths(base, tenths) == (base \div 10) * tenths

\* the location is looked up in the table as given: dict.get takes any value
\* as a key, and a key that is no string is not in the table
estimate_daily_variation(location) ==
    LET base_intensity == IF location.t = "str"
                          THEN get_fallback_intensity(location.v)
                          ELSE regional_fallbacks["default"]
    IN  [base_intensity |-> base_intensity,
         morning_peak   |-> Tenths(base_intensity, 12),
         midday_low     |-> Tenths(base_intensity, 8),
         evening_peak   |-> Tenths(base_intensity, 13),
         night_low      |-> Tenths(base_intensity, 9)]

\* one call of estimate_daily_variation, run to its return
EstimateDailyVariation ==
    /\ \E location \in Locations :
          carbon_call' = [op |-> "estimate_daily_variation",
                          location |-> location,
                          out |-> estimate_daily_variation(location)]
    /\ UNCHANGED <<electricity_maps_token, watt_time_username,
                   watt_time_password, watt_time_token, watt_time_rejected,
                   calcVars, cacheVars, valVars, impactVars, batchVars,
                   healthVars>>

InitVariation == InitCarbon

NextVariation == EstimateDailyVariation

SpecVariation == InitVariation /\ [][NextVariation]_vars

VariationDone == carbon_call.op = "estimate_daily_variation"

\* C21: base_intensity of estimate_daily_variation is the value
\* get_carbon_intensity resolves for the same location with no live provider
\* answering (the table value of the normalized location), and the four
\* figures are 1.2, 0.8, 1.3 and 0.9 times that value.
C21_VariationOfResolvedBase ==
    VariationDone =>
        \A resolved \in {get_carbon_intensity(Service, carbon_call.location,
                                              Null, Raises, Raises,
                                              Raises).intensity} :
           /\ carbon_call.out.base_intensity = resolved
           /\ carbon_call.out.morning_peak = Tenths(resolved, 12)
           /\ carbon_call.out.midday_low = Tenths(resolved, 8)
           /\ carbon_call.out.evening_peak = Tenths(resolved, 13)
           /\ carbon_call.out.night_low = Tenths(resolved, 9)

\* the four values the cache is keyed by, as calculate_impact reads them
KeyedTuple(request) ==
    <<request.data["model"], request.data["input_tokens"],
      request.data["output_tokens"],
      Get(request.data, "location", Str("us-west-1"))>>

KeyOfRequest(request) ==
    CacheKey(request.data["model"], request.data["input_tokens"],
             request.data["output_tokens"],
             Get(request.data, "location", Str("us-west-1")))

\* C22: two valid requests that differ in model, input_tokens, output_tokens
\* or location have different cache keys, so a request answered from the
\* cache right after another request was answered did not get the entry of a
\* different tuple.
C22_KeyedByTuple ==
    [][(impact_calls' # impact_calls /\ ImpactOk /\ impact_call'.status = 200)
          => (KeyedTuple(impact_call.request) # KeyedTuple(impact_call'.request)
                => /\ KeyOfRequest(impact_call.request)
                        # KeyOfRequest(impact_call'.request)
                   /\ ~(impact_call'.raw.cached
                          /\ impact_call'.body = impact_call.body))]_vars

\* the request passes validation
ValidRequest(request) ==
    /\ request.parsed
    /\ DOMAIN request.data # {}
    /\ validate_request_data(request.data) = Null

\* C23: a valid request whose four values have an entry in the cache is
\* answered with exactly the stored result, after a request with the same
\* four values with that request's result, timestamp and carbon intensity
\* included; nothing is calculated, no provider is asked, and the cache, its
\* order and the provider token stay as they were.
C23_HitReturnsStored ==
    [][(impact_calls' # impact_calls /\ ValidRequest(impact_call'.request)
          /\ KeyOfRequest(impact_call'.request) \in KeySet(cache_dict))
          => /\ impact_call'.status = 200
             /\ impact_call'.body =
                   get_cached_result(cache_dict,
                                     KeyOfRequest(impact_call'.request))
             /\ impact_call'.raw.cached
             /\ ~impact_call'.raw.computed
             /\ impact_call'.requests = <<>>
             /\ cache_dict' = cache_dict
             /\ watt_time_token' = watt_time_token
             /\ (ImpactOk /\ KeyedTuple(impact_call.request)
                               = KeyedTuple(impact_call'.request))
                  => impact_call'.body = impact_call.body]_vars

\* a request without a timestamp answered from the cache with the result,
\* and the timestamp, of an earlier request
C23_Witness ==
    /\ ImpactOk
    /\ impact_call.raw.cached
    /\ "timestamp" \notin DOMAIN impact_call.request.data
    /\ impact_call.body.timestamp = Iso
    /\ KeyOfRequest(impact_call.request) \in KeySet(cache_dict)

-----------------------------------------------------------------------------
(* app.py: cache_result run by several threads, no lock                    *)
(* A thread interleaves with the others between its operations on the     *)
(* dict: the insert, the size test with the snapshot of the keys, and     *)
(* each del.                                                              *)

MaxWriters == 2

Writers == 1..MaxWriters

\* the key thread t writes: its own, never written before
WriterKey(t) == NthKey(CACHE_MAX_SIZE + t)

WriterIdle(t) ==
    [pc |-> "idle", key |-> WriterKey(t), keys_to_remove |-> <<>>, next |-> 1,
     raised |-> FALSE, len_at_return |-> 0]

\* cache_dict[cache_key] = result
WriterInsert(t) ==
    /\ writers[t].pc = "idle"
    /\ cache_dict' = DictSet(cache_dict, writers[t].key, "resultA")
    /\ writers' = [writers EXCEPT ![t].pc = "inserted"]

\* if len(cache_dict) > 1000: keys_to_remove = list(cache_dict.keys())[:200];
\* with nothing to remove the call returns
WriterSnapshot(t) ==
    /\ writers[t].pc = "inserted"
    /\ writers' =
         IF Len(cache_dict) > CACHE_MAX_SIZE
         THEN [writers EXCEPT
                 ![t].pc = "evicting",
                 ![t].keys_to_remove =
                    SubSeq(CacheKeys(cache_dict), 1,
                           Min(EVICT_COUNT, Len(cache_dict)))]
         ELSE [writers EXCEPT
                 ![t].pc = "returned",
                 ![t].len_at_return = Len(cache_dict)]
    /\ UNCHANGED cache_dict

\* del cache_dict[key] for the next key of the snapshot: a key another thread
\* has removed raises KeyError, the except clause logs it and the call
\* returns; after the last key the call returns
WriterDelete(t) ==
    /\ writers[t].pc = "evicting"
    /\ \E key \in {writers[t].keys_to_remove[writers[t].next]} :
          IF key \in KeySet(cache_dict)
          THEN /\ cache_dict' = DictDelAll(cache_dict, <<key>>)
               /\ writers' =
                    IF writers[t].next = Len(writers[t].keys_to_remove)
                    THEN [writers EXCEPT
                            ![t].pc = "returned",
                            ![t].len_at_return = Len(cache_dict) - 1]
                    ELSE [writers EXCEPT ![t].next = @ + 1]
          ELSE /\ writers' = [writers EXCEPT
                                ![t].pc = "returned",
                                ![t].raised = TRUE,
                                ![t].len_at_return = Len(cache_dict)]
               /\ UNCHANGED cache_dict

InitRace ==
    /\ CalcIdle
    /\ CarbonUnconfigured
    /\ ValIdle
    /\ ImpactIdle
    /\ BatchIdle
    /\ HealthIdle
    /\ cache_call = NoCall
    /\ cache_writes = 0
    /\ writers = [t \in Writers |-> WriterIdle(t)]
    /\ cache_dict = Prefilled(CACHE_MAX_SIZE)

RaceFrame ==
    UNCHANGED <<calcVars, carbonVars, valVars, impactVars, batchVars,
                healthVars, cache_call, cache_writes>>

NextRace ==
    \/ \E t \in Writers : WriterInsert(t) /\ RaceFrame
    \/ \E t \in Writers : WriterSnapshot(t) /\ RaceFrame
    \/ \E t \in Writers : WriterDelete(t) /\ RaceFrame

SpecRace == InitRace /\ [][NextRace]_vars

\* C24: with cache_result calls interleaved and no lock, the cache holds at
\* most 1000 entries at the moment each call returns, and no call returns
\* having given up its eviction part-way.
C24_BoundedUnderInterleaving ==
    \A t \in DOMAIN writers :
       writers[t].pc = "returned" =>
          /\ writers[t].len_at_return <= CACHE_MAX_SIZE
          /\ ~writers[t].raised

\* timestamps a caller may hand to get_carbon_intensity
AnyTimestamps ==
    Timestamps \cup {Str("1999-12-31T23:59:59+00:00"), Str("tomorrow"), Str("")}

====
